---- MODULE Spec2Model ----
(***************************************************************************)
(* A model of the book crawler: the Fetcher (crawler/fetcher.py), the      *)
(* hash and diff helpers (utilities/utils.py), the two record reconcilers  *)
(* (crawler/utils.py and crawler/main.py), the session manager             *)
(* (crawler/manager.py) and the page loop (crawler/main.py).               *)
(*                                                                         *)
(* Time is counted in hours.  The document store is modelled by the        *)
(* variables sessions, books, categories and changelog; a run of crawl_all *)
(* by the record run[r], which holds the manager's in-memory session and   *)
(* the locals of crawl_all and crawl_page.                                 *)
(***************************************************************************)
EXTENDS Integers, Sequences, FiniteSets, TLC

VARIABLES
    now,        \* datetime.utcnow(), in hours
    sessions,   \* the CrawlSession collection: a sequence, session_id = index
    books,      \* the Book collection: a sequence of documents
    categories, \* the BookCategory collection: a sequence of names
    changelog,  \* the ChangeLog collection: a sequence of entries
    run,        \* run[r]: one invocation of crawl_all (manager + locals)
    call,       \* the last reconcile call: its input, implementation, outcome
    hist        \* observations of the current run, read by the properties only

vars == <<now, sessions, books, categories, changelog, run, call, hist>>

(***************************************************************************)
(* Bounds of the model.                                                    *)
(***************************************************************************)
MaxSessions == 2      \* sessions ever created
MaxRuns == 2          \* invocations of crawl_all
MaxPage == 2          \* list pages beyond this one do not exist (404)
MaxLimit == 2         \* largest page limit a run is invoked with
MaxLinks == 1         \* detail links on one list page
MaxTicks == 2         \* clock ticks
TickHours == 24       \* hours per clock tick
MaxChangeLog == 2     \* ChangeLog entries ever written by the crawl runs
MaxCalls == 5         \* calls made on a manager driven on its own
MaxReconciles == 3    \* calls made on the reconcilers driven on their own
MaxPageLinks == 3     \* detail links on the list page of a one-page run
MaxFetches == 4       \* calls of fetch_html followed attempt by attempt
MaxDetects == 2       \* calls of detect_changes on drawn dicts
MaxHashes == 3        \* calls of generate_hash on drawn dicts
MaxApiBooks == 2      \* books stored before and between the API requests
MaxApiCalls == 1      \* requests made on the books list endpoint
MaxPageSize == 2      \* page and page_size of a request

(***************************************************************************)
(* Program constants.                                                      *)
(***************************************************************************)
MaxAttempts == 3      \* stop_after_attempt(3)
WaitMultiplier == 1   \* wait_exponential(multiplier=1, ...)
WaitMin == 2          \* wait_exponential(..., min=2, ...)
WaitMax == 10         \* wait_exponential(..., max=10)
ExpBase == 2          \* wait_exponential's default exp_base
StaleHours == 24      \* timedelta(hours=24)

NoTime == -1          \* Optional[datetime] = None
NoLimit == -1         \* Optional[int] = None
NoText == "<None>"    \* Optional[str] = None
NoSession == 0        \* self.session = None

BOOK_FIELDS_TO_TRACK ==
    << "currency", "price_with_tax", "price_without_tax",
       "availability", "no_of_reviews", "no_of_ratings" >>

TrackedSet == { BOOK_FIELDS_TO_TRACK[i] : i \in 1..Len(BOOK_FIELDS_TO_TRACK) }

(***************************************************************************)
(* Python values.  A value is None, a str, an int or a Decimal; a Decimal  *)
(* has a numeric value (n, in hundredths) and a textual form (s): 10.0 and *)
(* 10.00 are equal Decimals with different str().                          *)
(***************************************************************************)
PyNone == [t |-> "none", n |-> 0, s |-> ""]
PyStr(x) == [t |-> "str", n |-> 0, s |-> x]
PyInt(k) == [t |-> "int", n |-> k, s |-> ""]
PyDec(k, x) == [t |-> "dec", n |-> k, s |-> x]

IsNumber(v) == v.t \in {"int", "dec"}
Hundredths(v) == IF v.t = "int" THEN 100 * v.n ELSE v.n

\* Python's ==: an int and a Decimal compare by numeric value
PyEq(a, b) ==
    IF IsNumber(a) /\ IsNumber(b) THEN Hundredths(a) = Hundredths(b) ELSE a = b

\* str(v)
PyStrOf(v) ==
    CASE v.t = "none" -> "None"
      [] v.t = "str" -> v.s
      [] v.t = "int" -> ToString(v.n)
      [] OTHER -> v.s

\* dict.get(key) and dict.get(key, default)
Get(d, k) == IF k \in DOMAIN d THEN d[k] ELSE PyNone
GetOr(d, k, dflt) == IF k \in DOMAIN d THEN d[k] ELSE dflt

\* json.dumps(value, default=str): a Decimal is written through str()
JsonDumps(v) ==
    CASE v.t = "none" -> [k |-> "null", n |-> 0, s |-> ""]
      [] v.t = "str" -> [k |-> "string", n |-> 0, s |-> v.s]
      [] v.t = "int" -> [k |-> "number", n |-> v.n, s |-> ""]
      [] OTHER -> [k |-> "string", n |-> 0, s |-> v.s]

\* generate_hash: the digest of the sorted-key JSON text of the projection
\* onto the tracked fields.  The digest is taken to be collision-free, so it
\* is represented by the text it digests, key by key.
\* a faulty variant that digests the whole dict, not its projection
generate_hash_whole_dict(data) == [f \in DOMAIN data |-> JsonDumps(data[f])]

\* a faulty variant that leaves the two prices out of the digest
generate_hash_without_prices(data) ==
    [f \in TrackedSet \ {"price_with_tax", "price_without_tax"} |->
        JsonDumps(Get(data, f))]

generate_hash(data) == [f \in TrackedSet |-> JsonDumps(Get(data, f))]

\* detect_changes: the tracked fields that differ, in allowlist order, with
\* the old and the new value of each
RECURSIVE DetectFrom(_, _, _)
DetectFrom(old_book, new_book, i) ==
    IF i > Len(BOOK_FIELDS_TO_TRACK) THEN << >>
    ELSE LET field == BOOK_FIELDS_TO_TRACK[i]
             old_value == Get(old_book, field)
             new_value == Get(new_book, field)
             rest == DetectFrom(old_book, new_book, i + 1)
         IN  IF ~PyEq(old_value, new_value)
             THEN << [field |-> field, old |-> old_value, new |-> new_value] >> \o rest
             ELSE rest

\* a faulty variant that compares every key of the dicts, not only the
\* allowlist
detect_changes_every_key(old_book, new_book) ==
    DetectFrom(old_book, new_book, 1) \o
        (IF ~PyEq(Get(old_book, "name"), Get(new_book, "name"))
         THEN << [field |-> "name", old |-> Get(old_book, "name"),
                  new |-> Get(new_book, "name")] >>
         ELSE << >>)

detect_changes(old_book, new_book) == DetectFrom(old_book, new_book, 1)

(***************************************************************************)
(* The Fetcher.  att[k] is what the k-th HTTP attempt meets: "ok", an HTTP *)
(* status error ("404", "500") or a transport error ("timeout").  att is   *)
(* never read beyond the attempt that ends the call.                       *)
(***************************************************************************)
AttemptOutcomes == {"ok", "404", "500", "timeout"}

\* a faulty variant of the predicate: a 404 is retried like any other error
should_retry_always(exception) == TRUE

should_retry(exception) ==
    IF exception \in {"404", "500"} THEN exception # "404" ELSE TRUE

\* tenacity: a failure the predicate refuses is re-raised as it is; after
\* the last attempt a RetryError wrapping the last failure is raised
RECURSIVE FetchFrom(_, _)
FetchFrom(att, k) ==
    IF att[k] = "ok" THEN [res |-> "ok", attempts |-> k, last |-> "ok"]
    ELSE IF ~should_retry(att[k])
         THEN [res |-> "HTTPStatusError404", attempts |-> k, last |-> att[k]]
    ELSE IF k >= MaxAttempts
         THEN [res |-> "RetryError", attempts |-> k, last |-> att[k]]
    ELSE FetchFrom(att, k + 1)

fetch_html(att) == FetchFrom(att, 1)

\* what the attempts of one call can meet: the sequences of outcomes that
\* fetch_html reads to their end (no attempt follows the one that ends it)
Attempts ==
    { att \in UNION { [1..k -> AttemptOutcomes] : k \in 1..MaxAttempts } :
        /\ \A k \in 1..(Len(att) - 1) : att[k] # "ok" /\ should_retry(att[k])
        /\ \/ att[Len(att)] = "ok"
           \/ ~should_retry(att[Len(att)])
           \/ Len(att) = MaxAttempts }

RECURSIVE Pow(_, _)
Pow(b, e) == IF e = 0 THEN 1 ELSE b * Pow(b, e - 1)

Max2(a, b) == IF a >= b THEN a ELSE b
Min2(a, b) == IF a <= b THEN a ELSE b

\* tenacity's wait_exponential.__call__ for the attempt that has just failed:
\* exp = exp_base ** (attempt_number - 1); result = multiplier * exp;
\* max(max(0, min), min(result, max))
wait_exponential(attempt_number) ==
    LET exp == Pow(ExpBase, attempt_number - 1)
        result == WaitMultiplier * exp
    IN  Max2(Max2(0, WaitMin), Min2(result, WaitMax))

(***************************************************************************)
(* The document store, as the reconcilers see it.  A raw record is a dict: *)
(* a function from the keys it holds to Python values.  A Book document is *)
(* a record; its category link is the category's name and a ChangeLog      *)
(* entry's book link is the book's title.                                  *)
(*                                                                         *)
(* fault names the persistence operation that fails during one call (the   *)
(* k-th ChangeLog insert for "changelog_insert"), or "none".               *)
(***************************************************************************)
NoFault == [op |-> "none", k |-> 0]
Faults ==
    { [op |-> o, k |-> 0] :
        o \in {"none", "category_find", "category_insert",
               "book_find", "book_insert", "book_save"} }
    \cup { [op |-> "changelog_insert", k |-> i] : i \in 1..2 }

\* a faulty variant of the truthiness test: `is None` instead of `not`
Falsy_none_only(v) == v.t = "none"

\* Python truthiness of a value (`if not title`, `if not category_name`)
Falsy(v) ==
    \/ v.t = "none"
    \/ v.t = "str" /\ v.s = ""
    \/ v.t = "int" /\ v.n = 0

\* `not category_name.strip()`
Blank(v) == v.t = "str" /\ v.s \in {"", " "}

\* Decimal(str(v)): defined on numbers only (anything else raises)
DecimalOfStr(v) ==
    CASE v.t = "dec" -> v
      [] v.t = "int" -> PyDec(100 * v.n, ToString(v.n))
      [] OTHER -> PyNone

\* pydantic: Book(...) raises unless the required fields have their types
BookValid(doc) ==
    /\ doc.title.t = "str"
    /\ doc.name.t = "str"
    /\ doc.currency.t = "str"
    /\ doc.price_with_tax.t = "dec"
    /\ doc.price_without_tax.t = "dec"
    /\ doc.availability.t = "str"
    /\ doc.no_of_reviews.t = "int"
    /\ doc.no_of_ratings.t = "int"

\* Book.find_one(Book.title == title): the first document with the title,
\* 0 for None
BookFindOne(title) ==
    LET S == { i \in 1..Len(books) : books[i].title = title }
    IN  IF S = {} THEN 0 ELSE CHOOSE i \in S : \A j \in S : i <= j

\* BookCategory.find_one(BookCategory.name == name): found or not
CategoryFound(name) == \E i \in 1..Len(categories) : categories[i] = name

\* str(x) if x is not None else None
OptStr(v) == IF v.t = "none" THEN NoText ELSE PyStrOf(v)

\* the outcome of one reconcile call: the three collections after it, the
\* stats it returned, and whether it raised instead of returning
Outcome(b, c, l, st, r) ==
    [books |-> b, categories |-> c, changelog |-> l, stats |-> st, raised |-> r]

Stats(a, u, e) == [added |-> a, updated |-> u, errors |-> e]

\* crawler/utils.py save_changes_log: one entry per change in order; a failed
\* insert is logged and skipped
RECURSIVE UtilsChangeLogs(_, _, _, _)
UtilsChangeLogs(title, changes, i, fault) ==
    IF i > Len(changes) THEN << >>
    ELSE LET entry == [book |-> title,
                       field_changed |-> changes[i].field,
                       old_value |-> OptStr(changes[i].old),
                       new_value |-> OptStr(changes[i].new)]
             rest == UtilsChangeLogs(title, changes, i + 1, fault)
         IN  IF fault.op = "changelog_insert" /\ fault.k = i
             THEN rest
             ELSE << entry >> \o rest

\* crawler/main.py save_changes_log: the entries written before the first
\* failed insert, which raises
RECURSIVE MainChangeLogs(_, _, _, _)
MainChangeLogs(title, changes, i, fault) ==
    IF i > Len(changes) \/ (fault.op = "changelog_insert" /\ fault.k = i)
    THEN << >>
    ELSE << [book |-> title,
             field_changed |-> changes[i].field,
             old_value |-> OptStr(changes[i].old),
             new_value |-> OptStr(changes[i].new)] >>
         \o MainChangeLogs(title, changes, i + 1, fault)

\* for field, change_info in changes.items(): setattr(book, field, new)
RECURSIVE ApplyChanges(_, _, _)
ApplyChanges(doc, changes, i) ==
    IF i > Len(changes) THEN doc
    ELSE ApplyChanges([doc EXCEPT ![changes[i].field] = changes[i].new],
                      changes, i + 1)

\* created_at / updated_at default to datetime.utcnow() evaluated once, when
\* the class is defined
ModuleLoadTime == 0

(***************************************************************************)
(* The Record Reconciler of crawler/utils.py.                              *)
(***************************************************************************)
\* a faulty variant of get_or_create_category: a failed lookup or insert is
\* swallowed and the category used all the same
get_or_create_category_swallowing(category_name, fault) ==
    LET name == IF Falsy(category_name) \/ Blank(category_name)
                THEN "Unknown" ELSE PyStrOf(category_name)
    IN  IF fault.op \in {"category_find", "category_insert"} \/ CategoryFound(name)
        THEN [raised |-> FALSE, categories |-> categories, name |-> name]
        ELSE [raised |-> FALSE, categories |-> Append(categories, name),
              name |-> name]

\* a faulty variant of get_or_create_category: the category is inserted
\* without being looked up first
get_or_create_category_always_creating(category_name, fault) ==
    LET name == IF Falsy(category_name) \/ Blank(category_name)
                THEN "Unknown" ELSE PyStrOf(category_name)
    IN  IF fault.op \in {"category_find", "category_insert"}
        THEN [raised |-> TRUE, categories |-> categories, name |-> name]
        ELSE [raised |-> FALSE, categories |-> Append(categories, name),
              name |-> name]

\* get_or_create_category: [raised, categories, name]
get_or_create_category(category_name, fault) ==
    LET name == IF Falsy(category_name) \/ Blank(category_name)
                THEN "Unknown" ELSE PyStrOf(category_name)
    IN  IF fault.op = "category_find"
        THEN [raised |-> TRUE, categories |-> categories, name |-> name]
        ELSE IF CategoryFound(name)
        THEN [raised |-> FALSE, categories |-> categories, name |-> name]
        ELSE IF fault.op = "category_insert"
        THEN [raised |-> TRUE, categories |-> categories, name |-> name]
        ELSE [raised |-> FALSE, categories |-> Append(categories, name),
              name |-> name]

\* a faulty variant of create_new_book: the hash is taken of the raw record
\* with its snapshot among the hashed keys
create_new_book_hashing_snapshot(book_data, category, fault) ==
    LET book == [title |-> GetOr(book_data, "title", PyStr("")),
                 name |-> GetOr(book_data, "name", PyStr("Unknown")),
                 description |-> Get(book_data, "description"),
                 category |-> category,
                 currency |-> GetOr(book_data, "currency", PyStr("GBP")),
                 price_with_tax |->
                     DecimalOfStr(GetOr(book_data, "price_with_tax", PyInt(0))),
                 price_without_tax |->
                     DecimalOfStr(GetOr(book_data, "price_without_tax", PyInt(0))),
                 availability |->
                     GetOr(book_data, "availability", PyStr("Unknown")),
                 no_of_reviews |-> GetOr(book_data, "no_of_reviews", PyInt(0)),
                 cover_image_url |-> Get(book_data, "image_url"),
                 no_of_ratings |-> GetOr(book_data, "no_of_ratings", PyInt(0)),
                 raw_html |-> Get(book_data, "raw_html"),
                 content_hash |->
                     [f \in TrackedSet \cup {"raw_html"} |->
                         JsonDumps(Get(book_data, f))],
                 updated_at |-> ModuleLoadTime]
    IN  IF ~BookValid(book) \/ fault.op = "book_insert"
        THEN [raised |-> TRUE, books |-> books]
        ELSE [raised |-> FALSE, books |-> Append(books, book)]

\* create_new_book: [raised, books].  The Book is built (pydantic validates
\* it) and inserted.  The default currency is the pound sign, written GBP.
create_new_book(book_data, category, fault) ==
    LET book == [title |-> GetOr(book_data, "title", PyStr("")),
                 name |-> GetOr(book_data, "name", PyStr("Unknown")),
                 description |-> Get(book_data, "description"),
                 category |-> category,
                 currency |-> GetOr(book_data, "currency", PyStr("GBP")),
                 price_with_tax |->
                     DecimalOfStr(GetOr(book_data, "price_with_tax", PyInt(0))),
                 price_without_tax |->
                     DecimalOfStr(GetOr(book_data, "price_without_tax", PyInt(0))),
                 availability |->
                     GetOr(book_data, "availability", PyStr("Unknown")),
                 no_of_reviews |-> GetOr(book_data, "no_of_reviews", PyInt(0)),
                 cover_image_url |-> Get(book_data, "image_url"),
                 no_of_ratings |-> GetOr(book_data, "no_of_ratings", PyInt(0)),
                 raw_html |-> Get(book_data, "raw_html"),
                 content_hash |-> generate_hash(book_data),
                 updated_at |-> ModuleLoadTime]
    IN  IF ~BookValid(book) \/ fault.op = "book_insert"
        THEN [raised |-> TRUE, books |-> books]
        ELSE [raised |-> FALSE, books |-> Append(books, book)]

\* a faulty variant of update_existing_book: content_hash is not refreshed
update_existing_book_stale_hash(i, book_data, changes, fault) ==
    LET logs == changelog \o UtilsChangeLogs(books[i].title, changes, 1, fault)
        doc == [ApplyChanges(books[i], changes, 1) EXCEPT
                   !.raw_html = Get(book_data, "raw_html"),
                   !.updated_at = now]
    IN  IF fault.op = "book_save"
        THEN [raised |-> TRUE, books |-> books, changelog |-> logs]
        ELSE [raised |-> FALSE, books |-> [books EXCEPT ![i] = doc],
              changelog |-> logs]

\* a faulty variant of update_existing_book: the final save() is forgotten
update_existing_book_unsaved(i, book_data, changes, fault) ==
    LET logs == changelog \o UtilsChangeLogs(books[i].title, changes, 1, fault)
    IN  IF fault.op = "book_save"
        THEN [raised |-> TRUE, books |-> books, changelog |-> logs]
        ELSE [raised |-> FALSE, books |-> books, changelog |-> logs]

\* update_existing_book: [raised, books, changelog].  The change log is
\* written first; the fields, raw_html, content_hash and updated_at are then
\* set on the in-memory document; the save comes last
update_existing_book(i, book_data, changes, fault) ==
    LET logs == changelog \o UtilsChangeLogs(books[i].title, changes, 1, fault)
        doc == [ApplyChanges(books[i], changes, 1) EXCEPT
                   !.raw_html = Get(book_data, "raw_html"),
                   !.content_hash = generate_hash(book_data),
                   !.updated_at = now]
    IN  IF fault.op = "book_save"
        THEN [raised |-> TRUE, books |-> books, changelog |-> logs]
        ELSE [raised |-> FALSE, books |-> [books EXCEPT ![i] = doc],
              changelog |-> logs]

\* a faulty variant of save_or_update_book: when the hash matches, the
\* snapshot is refreshed and the Book saved all the same
utils_save_or_update_book_refreshing(book_data, fault) ==
    LET cat == get_or_create_category(
                   GetOr(book_data, "category", PyStr("Unknown")), fault)
        title == GetOr(book_data, "title", PyStr(""))
        i == BookFindOne(title)
        current_hash == generate_hash(book_data)
        created == create_new_book(book_data, cat.name, fault)
        changes == detect_changes(books[i], book_data)
        updated == update_existing_book(i, book_data, changes, fault)
        refreshed == [books EXCEPT ![i].raw_html = Get(book_data, "raw_html"),
                                   ![i].updated_at = now]
    IN  IF cat.raised
        THEN Outcome(books, categories, changelog, Stats(0, 0, 1), FALSE)
        ELSE IF Falsy(title)
        THEN Outcome(books, cat.categories, changelog, Stats(0, 0, 1), FALSE)
        ELSE IF fault.op = "book_find"
        THEN Outcome(books, cat.categories, changelog, Stats(0, 0, 1), FALSE)
        ELSE IF i = 0
        THEN IF created.raised
             THEN Outcome(books, cat.categories, changelog, Stats(0, 0, 1), FALSE)
             ELSE Outcome(created.books, cat.categories, changelog,
                          Stats(1, 0, 0), FALSE)
        ELSE IF books[i].content_hash = current_hash
        THEN Outcome(refreshed, cat.categories, changelog, Stats(0, 0, 0), FALSE)
        ELSE IF changes = << >>
        THEN Outcome(books, cat.categories, changelog, Stats(0, 0, 0), FALSE)
        ELSE IF updated.raised
        THEN Outcome(updated.books, cat.categories, updated.changelog,
                     Stats(0, 0, 1), FALSE)
        ELSE Outcome(updated.books, cat.categories, updated.changelog,
                     Stats(0, 1, 0), FALSE)

\* save_or_update_book of crawler/utils.py: every exception is caught and
\* turned into errors = 1
\* a faulty variant of save_or_update_book: a differing hash alone leads
\* to update_existing_book, without the test of the detected changes
utils_save_or_update_book_updating_unchanged(book_data, fault) ==
    LET cat == get_or_create_category(
                   GetOr(book_data, "category", PyStr("Unknown")), fault)
        title == GetOr(book_data, "title", PyStr(""))
        i == BookFindOne(title)
        current_hash == generate_hash(book_data)
        created == create_new_book(book_data, cat.name, fault)
        changes == detect_changes(books[i], book_data)
        updated == update_existing_book(i, book_data, changes, fault)
    IN  IF cat.raised
        THEN Outcome(books, categories, changelog, Stats(0, 0, 1), FALSE)
        ELSE IF Falsy(title)
        THEN Outcome(books, cat.categories, changelog, Stats(0, 0, 1), FALSE)
        ELSE IF fault.op = "book_find"
        THEN Outcome(books, cat.categories, changelog, Stats(0, 0, 1), FALSE)
        ELSE IF i = 0
        THEN IF created.raised
             THEN Outcome(books, cat.categories, changelog, Stats(0, 0, 1), FALSE)
             ELSE Outcome(created.books, cat.categories, changelog,
                          Stats(1, 0, 0), FALSE)
        ELSE IF books[i].content_hash = current_hash
        THEN Outcome(books, cat.categories, changelog, Stats(0, 0, 0), FALSE)
        ELSE IF updated.raised
        THEN Outcome(updated.books, cat.categories, updated.changelog,
                     Stats(0, 0, 1), FALSE)
        ELSE Outcome(updated.books, cat.categories, updated.changelog,
                     Stats(0, 1, 0), FALSE)

utils_save_or_update_book(book_data, fault) ==
    LET cat == get_or_create_category(
                   GetOr(book_data, "category", PyStr("Unknown")), fault)
        title == GetOr(book_data, "title", PyStr(""))
        i == BookFindOne(title)
        current_hash == generate_hash(book_data)
        created == create_new_book(book_data, cat.name, fault)
        changes == detect_changes(books[i], book_data)
        updated == update_existing_book(i, book_data, changes, fault)
    IN  IF cat.raised
        THEN Outcome(books, categories, changelog, Stats(0, 0, 1), FALSE)
        ELSE IF Falsy(title)
        THEN Outcome(books, cat.categories, changelog, Stats(0, 0, 1), FALSE)
        ELSE IF fault.op = "book_find"
        THEN Outcome(books, cat.categories, changelog, Stats(0, 0, 1), FALSE)
        ELSE IF i = 0
        THEN IF created.raised
             THEN Outcome(books, cat.categories, changelog, Stats(0, 0, 1), FALSE)
             ELSE Outcome(created.books, cat.categories, changelog,
                          Stats(1, 0, 0), FALSE)
        ELSE IF books[i].content_hash = current_hash
        THEN Outcome(books, cat.categories, changelog, Stats(0, 0, 0), FALSE)
        ELSE IF changes = << >>
        THEN Outcome(books, cat.categories, changelog, Stats(0, 0, 0), FALSE)
        ELSE IF updated.raised
        THEN Outcome(updated.books, cat.categories, updated.changelog,
                     Stats(0, 0, 1), FALSE)
        ELSE Outcome(updated.books, cat.categories, updated.changelog,
                     Stats(0, 1, 0), FALSE)

(***************************************************************************)
(* save_or_update_book of crawler/main.py, the one crawl_page calls.  It   *)
(* catches nothing: a failure leaves it as an exception (raised), with     *)
(* what was written before the failure kept.                               *)
(***************************************************************************)
main_save_or_update_book(book_data, fault) ==
    LET has_category == "category" \in DOMAIN book_data
        category_name == Get(book_data, "category")
        name == PyStrOf(category_name)
        found == CategoryFound(name)
        cats == IF found THEN categories ELSE Append(categories, name)
        title == GetOr(book_data, "title", PyStr(""))
        i == BookFindOne(title)
        current_hash == generate_hash(book_data)
        book == [title |-> title,
                 name |-> GetOr(book_data, "name", PyStr("")),
                 description |-> GetOr(book_data, "description", PyStr("")),
                 category |-> name,
                 currency |-> Get(book_data, "currency"),
                 price_with_tax |->
                     DecimalOfStr(GetOr(book_data, "price_with_tax", PyInt(0))),
                 price_without_tax |->
                     DecimalOfStr(GetOr(book_data, "price_without_tax", PyInt(0))),
                 availability |-> Get(book_data, "availability"),
                 no_of_reviews |-> GetOr(book_data, "no_of_reviews", PyInt(0)),
                 cover_image_url |-> Get(book_data, "image_url"),
                 no_of_ratings |-> GetOr(book_data, "no_of_ratings", PyInt(0)),
                 raw_html |-> GetOr(book_data, "raw_html", PyStr("")),
                 content_hash |-> current_hash,
                 updated_at |-> ModuleLoadTime]
        changes == detect_changes(books[i], book_data)
        logs == changelog \o MainChangeLogs(title, changes, 1, fault)
        log_failed == fault.op = "changelog_insert" /\ fault.k <= Len(changes)
        doc == [ApplyChanges(books[i], changes, 1) EXCEPT
                   !.raw_html = GetOr(book_data, "raw_html", PyStr("")),
                   !.content_hash = current_hash,
                   !.updated_at = now]
        raise(b, c, l) == Outcome(b, c, l, Stats(0, 0, 0), TRUE)
    IN  IF ~has_category \/ fault.op = "category_find"
        THEN raise(books, categories, changelog)
        ELSE IF ~found /\ (category_name.t # "str" \/ fault.op = "category_insert")
        THEN raise(books, categories, changelog)
        ELSE IF fault.op = "book_find"
        THEN raise(books, cats, changelog)
        ELSE IF i = 0
        THEN IF ~BookValid(book) \/ fault.op = "book_insert"
             THEN raise(books, cats, changelog)
             ELSE Outcome(Append(books, book), cats, changelog,
                          Stats(1, 0, 0), FALSE)
        ELSE IF books[i].content_hash = current_hash
        THEN Outcome(books, cats, changelog, Stats(0, 0, 0), FALSE)
        ELSE IF changes = << >>
        THEN Outcome(books, cats, changelog, Stats(0, 0, 0), FALSE)
        ELSE IF log_failed \/ fault.op = "book_save"
        THEN raise(books, cats, logs)
        ELSE Outcome([books EXCEPT ![i] = doc], cats, logs,
                     Stats(0, 1, 0), FALSE)

(***************************************************************************)
(* The session manager (crawler/manager.py).  A manager m is the record    *)
(* [sid, session]: sid is the index of the stored document that            *)
(* self.session was loaded from or inserted as (NoSession for None), and   *)
(* session is the in-memory copy that save() writes back whole.            *)
(***************************************************************************)
Runs == {1, 2}

CrawlSession(limit) ==
    [status |-> "running",
     start_time |-> now,
     end_time |-> NoTime,
     last_completed_page |-> 0,
     target_pages |-> limit,
     total_books_processed |-> 0,
     books_added |-> 0,
     books_updated |-> 0,
     error_message |-> NoText]

\* SimpleCrawlManager(): self.session = None
NoDocument ==
    [status |-> "none", start_time |-> NoTime, end_time |-> NoTime,
     last_completed_page |-> 0, target_pages |-> NoLimit,
     total_books_processed |-> 0, books_added |-> 0, books_updated |-> 0,
     error_message |-> NoText]

SimpleCrawlManager == [sid |-> NoSession, session |-> NoDocument]

\* self.session.save(): the stored document is replaced by the in-memory copy
Save(m) == [sessions EXCEPT ![m.sid] = m.session]

\* start_session: [m, sessions]
start_session(m, limit) ==
    [m |-> [sid |-> Len(sessions) + 1, session |-> CrawlSession(limit)],
     sessions |-> Append(sessions, CrawlSession(limit))]

\* a faulty variant of the query: the filter on the status is forgotten
LatestOfAll ==
    LET F == 1..Len(sessions)
    IN  IF F = {} THEN 0
        ELSE CHOOSE i \in F : \A j \in F :
                \/ sessions[j].start_time < sessions[i].start_time
                \/ sessions[j].start_time = sessions[i].start_time /\ j <= i

\* CrawlSession.find(status == FAILED).sort(-start_time).first_or_none():
\* the failed session started last, 0 for None.  Sessions started within the
\* same model hour are ordered by their insertion.
LatestFailed ==
    LET F == { i \in 1..Len(sessions) : sessions[i].status = "failed" }
    IN  IF F = {} THEN 0
        ELSE CHOOSE i \in F : \A j \in F :
                \/ sessions[j].start_time < sessions[i].start_time
                \/ sessions[j].start_time = sessions[i].start_time /\ j <= i

\* a faulty variant of the resume: the age of the session is not looked at
resume_ignoring_age(m) ==
    LET failed_session == LatestFailed
        resumed == [sid |-> failed_session,
                    session |-> [sessions[failed_session] EXCEPT
                                    !.status = "running",
                                    !.error_message = NoText]]
    IN  IF failed_session = 0
        THEN [ret |-> FALSE, m |-> m, sessions |-> sessions]
        ELSE [ret |-> TRUE, m |-> resumed, sessions |-> Save(resumed)]

\* a faulty variant of the resume: error_message is left as it was
resume_keeping_error(m) ==
    LET failed_session == LatestFailed
        resumed == [sid |-> failed_session,
                    session |-> [sessions[failed_session] EXCEPT
                                    !.status = "running"]]
    IN  IF failed_session = 0
        THEN [ret |-> FALSE, m |-> m, sessions |-> sessions]
        ELSE IF sessions[failed_session].start_time < now - StaleHours
        THEN [ret |-> FALSE, m |-> m, sessions |-> sessions]
        ELSE [ret |-> TRUE, m |-> resumed, sessions |-> Save(resumed)]

\* resume_latest_failed_session: [ret, m, sessions]
resume_latest_failed_session(m) ==
    LET failed_session == LatestFailed
        resumed == [sid |-> failed_session,
                    session |-> [sessions[failed_session] EXCEPT
                                    !.status = "running",
                                    !.error_message = NoText]]
    IN  IF failed_session = 0
        THEN [ret |-> FALSE, m |-> m, sessions |-> sessions]
        ELSE IF sessions[failed_session].start_time < now - StaleHours
        THEN [ret |-> FALSE, m |-> m, sessions |-> sessions]
        ELSE [ret |-> TRUE, m |-> resumed, sessions |-> Save(resumed)]

\* a faulty variant of update_progress: the counters are overwritten with
\* the page's numbers instead of being added to
update_progress_overwriting(m, completed_page, books_on_page, books_added, books_updated) ==
    LET m2 == [m EXCEPT
                  !.session.last_completed_page = completed_page,
                  !.session.total_books_processed = books_on_page,
                  !.session.books_added = books_added,
                  !.session.books_updated = books_updated]
    IN  IF m.sid = NoSession
        THEN [m |-> m, sessions |-> sessions]
        ELSE [m |-> m2, sessions |-> Save(m2)]

\* a faulty variant of update_progress: the document is read back from the
\* store before it is changed and saved
update_progress_reloading(m, completed_page, books_on_page, books_added, books_updated) ==
    LET m1 == IF m.sid = NoSession THEN m
              ELSE [m EXCEPT !.session = sessions[m.sid]]
        m2 == [m1 EXCEPT
                  !.session.last_completed_page = completed_page,
                  !.session.total_books_processed = @ + books_on_page,
                  !.session.books_added = @ + books_added,
                  !.session.books_updated = @ + books_updated]
    IN  IF m.sid = NoSession
        THEN [m |-> m, sessions |-> sessions]
        ELSE [m |-> m2, sessions |-> Save(m2)]

\* a faulty variant of update_progress: the books of the page are not added
\* to total_books_processed
update_progress_uncounted(m, completed_page, books_on_page, books_added, books_updated) ==
    LET m2 == [m EXCEPT
                  !.session.last_completed_page = completed_page,
                  !.session.books_added = @ + books_added,
                  !.session.books_updated = @ + books_updated]
    IN  IF m.sid = NoSession
        THEN [m |-> m, sessions |-> sessions]
        ELSE [m |-> m2, sessions |-> Save(m2)]

\* update_progress: [m, sessions]
update_progress(m, completed_page, books_on_page, books_added, books_updated) ==
    LET m2 == [m EXCEPT
                  !.session.last_completed_page = completed_page,
                  !.session.total_books_processed = @ + books_on_page,
                  !.session.books_added = @ + books_added,
                  !.session.books_updated = @ + books_updated]
    IN  IF m.sid = NoSession
        THEN [m |-> m, sessions |-> sessions]
        ELSE [m |-> m2, sessions |-> Save(m2)]

\* `if error:` on an Optional[str]
Truthy(error) == error # NoText /\ error # ""

\* a faulty variant of complete_session: the final save() is forgotten
complete_session_unsaved(m, success, error) ==
    LET m2 == [m EXCEPT
                  !.session.end_time = now,
                  !.session.status = IF success THEN "completed" ELSE "failed",
                  !.session.error_message = IF Truthy(error) THEN error ELSE @]
    IN  IF m.sid = NoSession
        THEN [raised |-> FALSE, m |-> m, sessions |-> sessions]
        ELSE IF success /\ Truthy(error)
        THEN [raised |-> TRUE, m |-> m, sessions |-> sessions]
        ELSE [raised |-> FALSE, m |-> m2, sessions |-> sessions]

\* complete_session: [raised, m, sessions]
complete_session(m, success, error) ==
    LET m2 == [m EXCEPT
                  !.session.end_time = now,
                  !.session.status = IF success THEN "completed" ELSE "failed",
                  !.session.error_message = IF Truthy(error) THEN error ELSE @]
    IN  IF m.sid = NoSession
        THEN [raised |-> FALSE, m |-> m, sessions |-> sessions]
        ELSE IF success /\ Truthy(error)
        THEN [raised |-> TRUE, m |-> m, sessions |-> sessions]
        ELSE [raised |-> FALSE, m |-> m2, sessions |-> Save(m2)]

\* a faulty variant of get_resume_page: the page that was completed last
get_resume_page_again(m) ==
    IF m.sid # NoSession /\ m.session.last_completed_page > 0
    THEN m.session.last_completed_page ELSE 1

\* get_resume_page
get_resume_page(m) ==
    IF m.sid # NoSession THEN m.session.last_completed_page + 1 ELSE 1

(***************************************************************************)
(* The pages the crawler meets.  parse_book_details returns a dict with    *)
(* all thirteen keys; the title comes from the URL.                        *)
(***************************************************************************)
RawRecord(title, name, category, price, html) ==
    [title |-> PyStr(title),
     name |-> PyStr(name),
     description |-> PyNone,
     category |-> PyStr(category),
     currency |-> PyStr("GBP"),
     price_with_tax |-> price,
     price_without_tax |-> price,
     availability |-> PyStr("In stock"),
     no_of_reviews |-> PyInt(0),
     no_of_ratings |-> PyInt(3),
     image_url |-> PyStr("cover.jpg"),
     source_url |-> PyStr("url"),
     raw_html |-> PyStr(html)]

\* what the detail pages of the catalogue show during the crawl runs
CrawlRaws ==
    { RawRecord("a", "A", "Fiction", PyDec(1000, "10.00"), "h1"),
      RawRecord("a", "A", "Fiction", PyDec(1200, "12.00"), "h2") }

Limits == {NoLimit} \cup (1..MaxLimit)

\* what the attempts of a fetch meet during the crawl runs: HTTP answers, or
\* a transport error at every attempt
CrawlAttempts ==
    { att \in Attempts : \A k \in 1..Len(att) : att[k] # "timeout" }
    \cup { [k \in 1..MaxAttempts |-> "timeout"] }

\* the persistence failures a reconciliation meets during the crawl runs
CrawlFaults ==
    { f \in Faults : f.op \in {"none", "book_find"} }

(***************************************************************************)
(* One invocation of crawl_all: run[r].                                    *)
(*   pc = "idle"      not invoked yet                                      *)
(*        "loop"      at the test of the while loop                        *)
(*        "books"     in crawl_page, before the idx-th link of the page    *)
(*        "returned"  crawl_all returned result                            *)
(*        "raised"    crawl_all raised exc                                 *)
(***************************************************************************)
NoResult ==
    [session_id |-> NoSession, pages_processed |-> 0, total_books |-> 0,
     books_added |-> 0, books_updated |-> 0, resumed |-> FALSE]

IdleRun ==
    [pc |-> "idle", m |-> SimpleCrawlManager, limit |-> NoLimit,
     auto_resume |-> FALSE, resumed |-> FALSE, start_page |-> 1, page |-> 1,
     links |-> 0, idx |-> 1,
     books_processed |-> 0, total_added |-> 0, total_updated |-> 0,
     exc |-> NoText, result |-> NoResult]

\* what the properties remember of run r: the page-level errors it met, its
\* last event, the pages it completed and fetched, the first page without
\* links, what it added to the counters, its calls of
\* complete_session(success=True), the invocations so far, when it was
\* invoked (at) and how many sessions were stored then, and how the run
\* before it ended (prev: its pc, its session and the session's last state)
NoHist ==
    [page_errors |-> 0, last |-> "none", pages_done |-> 0, fetched |-> {},
     empty_page |-> 0, fetched_after_empty |-> FALSE,
     run_books |-> 0, run_added |-> 0, run_updated |-> 0,
     completions |-> 0, invocations |-> 0,
     at |-> 0, stored |-> 0,
     prev |-> [pc |-> "idle", sid |-> NoSession, session |-> NoDocument]]

\* call: the last call made on a component driven on its own, numbered
NoCall == [op |-> "none", seq |-> 0]

Init ==
    /\ now = 0
    /\ sessions = << >>
    /\ books = << >>
    /\ categories = << >>
    /\ changelog = << >>
    /\ run = [r \in Runs |-> IdleRun]
    /\ call = NoCall
    /\ hist = [r \in Runs |-> NoHist]

\* time passes, between two runs: a run is short against a tick of the clock
Tick ==
    /\ now < MaxTicks * TickHours
    /\ \A r \in Runs : run[r].pc \in {"idle", "returned", "raised"}
    /\ now' = now + TickHours
    /\ UNCHANGED <<sessions, books, categories, changelog, run, call, hist>>

\* crawl_all, up to the while loop: a new manager, the resume or the fresh
\* session, start_page
Invoke(r, limit, auto_resume) ==
    /\ run[r].pc \in {"idle", "returned", "raised"}
    /\ LET res == resume_latest_failed_session(SimpleCrawlManager)
           resumed == auto_resume /\ res.ret
           started == start_session(SimpleCrawlManager, limit)
           m == IF resumed THEN res.m ELSE started.m
       IN  /\ resumed \/ Len(sessions) < MaxSessions
           /\ sessions' = IF resumed THEN res.sessions ELSE started.sessions
           /\ run' = [run EXCEPT ![r] =
                         [IdleRun EXCEPT
                             !.pc = "loop", !.m = m, !.limit = limit,
                             !.auto_resume = auto_resume,
                             !.resumed = resumed,
                             !.start_page = get_resume_page(m),
                             !.page = get_resume_page(m)]]
           /\ hist[r].invocations < MaxRuns
           /\ hist' = [hist EXCEPT ![r] =
                         [NoHist EXCEPT
                             !.invocations = hist[r].invocations + 1,
                             !.at = now, !.stored = Len(sessions),
                             !.prev = [pc |-> run[r].pc, sid |-> run[r].m.sid,
                                       session |-> run[r].m.session]]]
    /\ UNCHANGED <<now, books, categories, changelog, call>>

\* a faulty variant of the summary: the page that ended the loop is counted
pages_processed_with_last(rn) == rn.page - rn.start_page + 1

\* "pages_processed": page - start_page
pages_processed(rn) == rn.page - rn.start_page

\* a faulty variant of the end of the loop: neither break nor the failed
\* while test leaves the loop
ReturnResult_continuing(r, event, fetched) ==
    /\ sessions' = sessions
    /\ run' = run
    /\ hist' = [hist EXCEPT ![r].last = event, ![r].fetched = fetched]

\* crawl_all after the loop: complete_session(success=True) and the summary
ReturnResult(r, event, fetched) ==
    LET rn == run[r]
        done == complete_session(rn.m, TRUE, NoText)
    IN  /\ sessions' = done.sessions
        /\ run' = [run EXCEPT ![r] =
                      [rn EXCEPT
                          !.pc = "returned", !.m = done.m,
                          !.result =
                              [session_id |-> done.m.sid,
                               pages_processed |-> pages_processed(rn),
                               total_books |-> done.m.session.total_books_processed,
                               books_added |-> done.m.session.books_added,
                               books_updated |-> done.m.session.books_updated,
                               resumed |-> rn.resumed]]]
        /\ hist' = [hist EXCEPT ![r].last = event,
                                ![r].completions = @ + 1,
                                ![r].fetched = fetched,
                                ![r].fetched_after_empty =
                                    @ \/ (fetched # hist[r].fetched
                                          /\ hist[r].empty_page # 0)]

\* a faulty variant of crawl_all's handler: the exception is raised again
\* without complete_session(success=False)
RaiseError_unrecorded(r, text, event, fetched) ==
    /\ sessions' = sessions
    /\ run' = [run EXCEPT ![r] = [@ EXCEPT !.pc = "raised", !.exc = text]]
    /\ hist' = [hist EXCEPT ![r].last = event,
                            ![r].page_errors = @ + 1,
                            ![r].fetched = fetched,
                            ![r].fetched_after_empty =
                                @ \/ hist[r].empty_page # 0]

\* crawl_all's handler for anything but a 404:
\* complete_session(success=False, error=str(e)); raise e
RaiseError(r, text, event, fetched) ==
    LET rn == run[r]
        done == complete_session(rn.m, FALSE, text)
    IN  /\ sessions' = done.sessions
        /\ run' = [run EXCEPT ![r] =
                      [rn EXCEPT !.pc = "raised", !.m = done.m, !.exc = text]]
        /\ hist' = [hist EXCEPT ![r].last = event,
                                ![r].page_errors = @ + 1,
                                ![r].fetched = fetched,
                                ![r].fetched_after_empty =
                                    @ \/ hist[r].empty_page # 0]

\* one iteration of the while loop up to the for loop of crawl_page: the
\* list page is fetched (att: what the attempts meet) and parsed (parse_ok,
\* n: the links parse_book_list finds)
FetchListPage(r, att, parse_ok, n) ==
    LET rn == run[r]
        f == fetch_html(att)
        fetched == hist[r].fetched \cup {rn.page}
    IN  /\ rn.pc = "loop"
        /\ rn.limit = NoLimit \/ rn.page <= rn.limit
        /\ rn.page > MaxPage => f.res # "ok"
        /\ CASE f.res = "HTTPStatusError404" ->
                  /\ ReturnResult(r, "list_404", fetched)
                  /\ UNCHANGED <<now, books, categories, changelog, call>>
             [] f.res = "RetryError" ->
                  /\ RaiseError(r, "RetryError", "list_error", fetched)
                  /\ UNCHANGED <<now, books, categories, changelog, call>>
             [] f.res = "ok" /\ ~parse_ok ->
                  /\ RaiseError(r, "ParseListError", "list_parse_error", fetched)
                  /\ UNCHANGED <<now, books, categories, changelog, call>>
             [] OTHER ->
                  /\ run' = [run EXCEPT ![r] =
                                [rn EXCEPT !.pc = "books", !.links = n, !.idx = 1,
                                           !.books_processed = 0,
                                           !.total_added = 0,
                                           !.total_updated = 0]]
                  /\ hist' = [hist EXCEPT
                                 ![r].last = "list_ok",
                                 ![r].fetched = fetched,
                                 ![r].fetched_after_empty =
                                     @ \/ hist[r].empty_page # 0,
                                 ![r].empty_page =
                                     IF @ = 0 /\ n = 0 THEN rn.page ELSE @]
                  /\ UNCHANGED <<now, sessions, books, categories, changelog,
                                 call>>

\* a faulty variant of the for loop: a book that fails ends the loop (break
\* where the code has continue)
ProcessBook_breaking(r, att, parse_ok, raw, fault) ==
    LET rn == run[r]
        f == fetch_html(att)
        out == main_save_or_update_book(raw, fault)
        saved == f.res = "ok" /\ parse_ok /\ ~out.raised
    IN  /\ rn.pc = "books"
        /\ rn.idx <= rn.links
        /\ IF f.res = "ok" /\ parse_ok
           THEN /\ Len(out.changelog) <= MaxChangeLog
                /\ books' = out.books
                /\ categories' = out.categories
                /\ changelog' = out.changelog
           ELSE UNCHANGED <<books, categories, changelog>>
        /\ run' = [run EXCEPT ![r] =
                      [rn EXCEPT
                          !.idx = IF saved THEN @ + 1 ELSE rn.links + 1,
                          !.total_added =
                              IF saved THEN @ + out.stats.added ELSE @,
                          !.total_updated =
                              IF saved THEN @ + out.stats.updated ELSE @,
                          !.books_processed = IF saved THEN @ + 1 ELSE @]]
        /\ hist' = [hist EXCEPT ![r].last =
                                    IF saved THEN "book_ok" ELSE "book_failed"]
        /\ UNCHANGED <<now, sessions, call>>

\* one iteration of crawl_page's for loop: the detail page is fetched and
\* parsed and the record reconciled; any exception is logged and the loop
\* goes on with the next link
ProcessBook(r, att, parse_ok, raw, fault) ==
    LET rn == run[r]
        f == fetch_html(att)
        out == main_save_or_update_book(raw, fault)
        saved == f.res = "ok" /\ parse_ok /\ ~out.raised
    IN  /\ rn.pc = "books"
        /\ rn.idx <= rn.links
        /\ IF f.res = "ok" /\ parse_ok
           THEN /\ Len(out.changelog) <= MaxChangeLog
                /\ books' = out.books
                /\ categories' = out.categories
                /\ changelog' = out.changelog
           ELSE UNCHANGED <<books, categories, changelog>>
        /\ run' = [run EXCEPT ![r] =
                      [rn EXCEPT
                          !.idx = @ + 1,
                          !.total_added =
                              IF saved THEN @ + out.stats.added ELSE @,
                          !.total_updated =
                              IF saved THEN @ + out.stats.updated ELSE @,
                          !.books_processed = IF saved THEN @ + 1 ELSE @]]
        /\ hist' = [hist EXCEPT ![r].last =
                                    IF saved THEN "book_ok" ELSE "book_failed"]
        /\ UNCHANGED <<now, sessions, call>>

\* a faulty variant of the iteration: page += 1 is forgotten
FinishPage_repeating(r) ==
    LET rn == run[r]
        up == update_progress(rn.m, rn.page, rn.books_processed,
                              rn.total_added, rn.total_updated)
    IN  /\ rn.pc = "books"
        /\ rn.idx > rn.links
        /\ sessions' = up.sessions
        /\ run' = [run EXCEPT ![r] =
                      [rn EXCEPT !.pc = "loop", !.m = up.m]]
        /\ hist' = [hist EXCEPT
                       ![r].last = "page_done",
                       ![r].pages_done = @ + 1,
                       ![r].run_books = @ + rn.books_processed,
                       ![r].run_added = @ + rn.total_added,
                       ![r].run_updated = @ + rn.total_updated]
        /\ UNCHANGED <<now, books, categories, changelog, call>>

\* a faulty variant of crawl_page: update_progress does not wait for the end
\* of the for loop
FinishPage_early(r) ==
    LET rn == run[r]
        up == update_progress(rn.m, rn.page, rn.books_processed,
                              rn.total_added, rn.total_updated)
    IN  /\ rn.pc = "books"
        /\ sessions' = up.sessions
        /\ run' = [run EXCEPT ![r] =
                      [rn EXCEPT !.pc = "loop", !.m = up.m, !.page = @ + 1]]
        /\ hist' = [hist EXCEPT
                       ![r].last = "page_done",
                       ![r].pages_done = @ + 1,
                       ![r].run_books = @ + rn.books_processed,
                       ![r].run_added = @ + rn.total_added,
                       ![r].run_updated = @ + rn.total_updated]
        /\ UNCHANGED <<now, books, categories, changelog, call>>

\* the end of crawl_page and of the iteration: update_progress, page += 1
FinishPage(r) ==
    LET rn == run[r]
        up == update_progress(rn.m, rn.page, rn.books_processed,
                              rn.total_added, rn.total_updated)
    IN  /\ rn.pc = "books"
        /\ rn.idx > rn.links
        /\ sessions' = up.sessions
        /\ run' = [run EXCEPT ![r] =
                      [rn EXCEPT !.pc = "loop", !.m = up.m, !.page = @ + 1]]
        /\ hist' = [hist EXCEPT
                       ![r].last = "page_done",
                       ![r].pages_done = @ + 1,
                       ![r].run_books = @ + rn.books_processed,
                       ![r].run_added = @ + rn.total_added,
                       ![r].run_updated = @ + rn.total_updated]
        /\ UNCHANGED <<now, books, categories, changelog, call>>

\* a faulty variant of the while test: `page < limit`
LoopExit_exclusive(r) ==
    /\ run[r].pc = "loop"
    /\ run[r].limit # NoLimit
    /\ run[r].page >= run[r].limit
    /\ ReturnResult(r, "limit", hist[r].fetched)
    /\ UNCHANGED <<now, books, categories, changelog, call>>

\* the while test fails: page > limit
LoopExit(r) ==
    /\ run[r].pc = "loop"
    /\ run[r].limit # NoLimit
    /\ run[r].page > run[r].limit
    /\ ReturnResult(r, "limit", hist[r].fetched)
    /\ UNCHANGED <<now, books, categories, changelog, call>>

\* the inputs a step does not read take one value: nothing is parsed when
\* the fetch fails, and nothing follows a parse that fails
FirstRaw == CHOOSE raw \in CrawlRaws : TRUE

Canonical(att, parse_ok, rest_is_default) ==
    /\ fetch_html(att).res # "ok" => parse_ok
    /\ (fetch_html(att).res # "ok" \/ ~parse_ok) => rest_is_default

\* crawl runs invoked one after another, by one worker
Next ==
    \/ Tick
    \/ \E limit \in Limits, auto_resume \in BOOLEAN : Invoke(1, limit, auto_resume)
    \/ \E att \in CrawlAttempts, parse_ok \in BOOLEAN, n \in 0..MaxLinks :
          /\ Canonical(att, parse_ok, n = 0)
          /\ FetchListPage(1, att, parse_ok, n)
    \/ \E att \in CrawlAttempts, parse_ok \in BOOLEAN, raw \in CrawlRaws,
          fault \in CrawlFaults :
          /\ Canonical(att, parse_ok, raw = FirstRaw /\ fault = NoFault)
          /\ ProcessBook(1, att, parse_ok, raw, fault)
    \/ FinishPage(1)
    \/ LoopExit(1)

Spec == Init /\ [][Next]_vars

(***************************************************************************)
(* Runs of one page (limit = 1) with up to MaxPageLinks links, every       *)
(* failure of a detail fetch, of its parse and of the reconciliation.      *)
(***************************************************************************)
NextPage ==
    \/ Invoke(1, 1, FALSE)
    \/ \E att \in CrawlAttempts, parse_ok \in BOOLEAN, n \in 0..MaxPageLinks :
          /\ Canonical(att, parse_ok, n = 0)
          /\ FetchListPage(1, att, parse_ok, n)
    \/ \E att \in Attempts, parse_ok \in BOOLEAN, raw \in CrawlRaws,
          fault \in Faults :
          /\ Canonical(att, parse_ok, raw = FirstRaw /\ fault = NoFault)
          /\ ProcessBook(1, att, parse_ok, raw, fault)
    \/ FinishPage(1)
    \/ LoopExit(1)

SpecPage == Init /\ [][NextPage]_vars

(***************************************************************************)
(* fetch_html followed attempt by attempt under its retry decorator:       *)
(* call.att holds the outcomes of the attempts made, call.waits the sleeps *)
(* taken between them.                                                     *)
(*   pc = "attempt"  about to send the GET                                 *)
(*        "sleep"    an attempt failed and will be retried after the wait  *)
(*        "done"     the call has returned or raised: call.res             *)
(***************************************************************************)
FetchCall ==
    /\ call.op = "none" \/ (call.op = "fetch" /\ call.pc = "done")
    /\ call.seq < MaxFetches
    /\ call' = [op |-> "fetch", seq |-> call.seq + 1, pc |-> "attempt",
                att |-> << >>, waits |-> << >>, res |-> "pending",
                last |-> "none"]
    /\ UNCHANGED <<now, sessions, books, categories, changelog, run, hist>>

FetchAttempt(outcome) ==
    LET att == Append(call.att, outcome)
        attempt_number == Len(att)
    IN  /\ call.op = "fetch"
        /\ call.pc = "attempt"
        /\ call' =
             IF outcome = "ok"
             THEN [call EXCEPT !.att = att, !.pc = "done", !.res = "ok",
                               !.last = outcome]
             ELSE IF ~should_retry(outcome)
             THEN [call EXCEPT !.att = att, !.pc = "done",
                               !.res = "HTTPStatusError404",
                               !.last = outcome]
             ELSE IF attempt_number >= MaxAttempts
             THEN [call EXCEPT !.att = att, !.pc = "done",
                               !.res = "RetryError", !.last = outcome]
             ELSE [call EXCEPT !.att = att, !.pc = "sleep",
                               !.last = outcome,
                               !.waits =
                                   Append(@, wait_exponential(attempt_number))]
        /\ UNCHANGED <<now, sessions, books, categories, changelog, run, hist>>

FetchSleep ==
    /\ call.op = "fetch"
    /\ call.pc = "sleep"
    /\ call' = [call EXCEPT !.pc = "attempt"]
    /\ UNCHANGED <<now, sessions, books, categories, changelog, run, hist>>

NextFetch ==
    \/ FetchCall
    \/ \E outcome \in AttemptOutcomes : FetchAttempt(outcome)
    \/ FetchSleep

SpecFetch == Init /\ [][NextFetch]_vars

(***************************************************************************)
(* detect_changes called on its own with dicts that hold, omit or hold     *)
(* None for two tracked fields and one field outside the allowlist.        *)
(***************************************************************************)
DetectKeys == {"price_with_tax", "availability", "name"}

DetectValues(key) ==
    CASE key = "price_with_tax" ->
             {PyNone, PyDec(1000, "10.00"), PyInt(10), PyDec(1200, "12.00")}
      [] key = "availability" -> {PyStr("In stock"), PyStr("Out of stock")}
      [] OTHER -> {PyStr("A"), PyStr("B")}

DetectDicts ==
    UNION { { d \in [S -> UNION { DetectValues(k) : k \in DetectKeys }] :
                \A k \in S : d[k] \in DetectValues(k) } :
            S \in SUBSET DetectKeys }

Detect(old_book, new_book) ==
    /\ call.op \in {"none", "detect"}
    /\ call.seq < MaxDetects
    /\ call' = [op |-> "detect", seq |-> call.seq + 1,
                old |-> old_book, new |-> new_book,
                changes |-> detect_changes(old_book, new_book)]
    /\ UNCHANGED <<now, sessions, books, categories, changelog, run, hist>>

NextDetect ==
    \E old_book \in DetectDicts, new_book \in DetectDicts :
        Detect(old_book, new_book)

SpecDetect == Init /\ [][NextDetect]_vars

(***************************************************************************)
(* generate_hash called on its own.  A dict is drawn as the sequence of    *)
(* its items in insertion order; data.get(key) reads it by key.            *)
(***************************************************************************)
HashKeys == {"price_with_tax", "availability", "name"}

HashValues(key) ==
    CASE key = "price_with_tax" ->
             {PyNone, PyDec(1000, "10.00"), PyDec(1200, "12.00")}
      [] key = "availability" -> {PyStr("In stock")}
      [] OTHER -> {PyStr("A"), PyStr("B")}

\* the insertion orders of the dicts over HashKeys
HashItems ==
    { items \in UNION { [1..n -> [k : HashKeys,
                                  v : UNION { HashValues(k) : k \in HashKeys }]] :
                        n \in 0..Cardinality(HashKeys) } :
        /\ \A i \in 1..Len(items) : items[i].v \in HashValues(items[i].k)
        /\ \A i, j \in 1..Len(items) : items[i].k = items[j].k => i = j }

\* the dict that a sequence of items builds
DictOf(items) ==
    [key \in { items[i].k : i \in 1..Len(items) } |->
        (CHOOSE i \in 1..Len(items) : items[i].k = key) ]

DictValues(items) ==
    [key \in DOMAIN DictOf(items) |-> items[DictOf(items)[key]].v]

NoHashCall ==
    [op |-> "hash", seq |-> 0, data |-> << >>, digest |-> generate_hash(<< >>)]

Hash(items) ==
    /\ call.op \in {"none", "hash"}
    /\ call.seq < MaxHashes
    /\ call' = [op |-> "hash", seq |-> call.seq + 1,
                data |-> items,
                digest |-> generate_hash(DictValues(items)),
                prev |-> IF call.op = "none" THEN NoHashCall
                         ELSE [op |-> "hash", seq |-> call.seq,
                               data |-> call.data, digest |-> call.digest]]
    /\ UNCHANGED <<now, sessions, books, categories, changelog, run, hist>>

NextHash == \E items \in HashItems : Hash(items)

SpecHash == Init /\ [][NextHash]_vars

(***************************************************************************)
(* The books list endpoint, GET /books (api/routes.py get_books), and the  *)
(* BookService of api/services.py with its own query builder.  A query is  *)
(* [category, rating, gte, lte]: category is "<any>" when the query has no *)
(* "category.$id" key, the category's name when it has the id of a stored  *)
(* category, "<fresh id>" for PydanticObjectId(); the other three are      *)
(* PyNone when the key is missing.                                         *)
(***************************************************************************)
AnyCategory == "<any>"
FreshId == "<fresh id>"

\* routes.py get_books, lines 75-92
routes_build_query(category, rating, min_price, max_price) ==
    [category |-> IF category # NoText /\ category # "" /\ CategoryFound(category)
                  THEN category ELSE AnyCategory,
     rating |-> IF Falsy(rating) THEN PyNone ELSE rating,
     gte |-> min_price,
     lte |-> max_price]

\* services.py BookService._build_books_query
_build_books_query(category, rating, min_price, max_price) ==
    [category |-> IF category # NoText /\ category # ""
                  THEN IF CategoryFound(category) THEN category ELSE FreshId
                  ELSE AnyCategory,
     rating |-> IF Falsy(rating) THEN PyNone ELSE rating,
     gte |-> min_price,
     lte |-> max_price]

\* Book.find(query): the positions of the stored books the query matches
BookFind(query) ==
    { i \in 1..Len(books) :
        /\ query.category # AnyCategory => books[i].category = query.category
        /\ query.rating # PyNone => PyEq(books[i].no_of_ratings, query.rating)
        /\ query.gte # PyNone =>
              Hundredths(books[i].price_with_tax) >= Hundredths(query.gte)
        /\ query.lte # PyNone =>
              Hundredths(books[i].price_with_tax) <= Hundredths(query.lte) }

\* the SortBy enum with parse_sort_field: [field, order]; NoText is no
\* sort_by, which sorts by created_at descending
SortBys == {NoText, "price_with_tax", "-price_with_tax", "-no_of_ratings"}

parse_sort_field(sort_by) ==
    CASE sort_by = "price_with_tax" -> [field |-> "price_with_tax", order |-> 1]
      [] sort_by = "-price_with_tax" -> [field |-> "price_with_tax", order |-> -1]
      [] sort_by = "-no_of_ratings" -> [field |-> "no_of_ratings", order |-> -1]
      [] OTHER -> [field |-> "created_at", order |-> -1]

\* created_at is the default of the Book class, one value for every book
SortKey(i, field) ==
    IF field = "created_at" THEN ModuleLoadTime ELSE Hundredths(books[i][field])

\* .sort([(field, order)]): books with equal keys stay in stored order
RECURSIVE SortFound(_, _)
SortFound(S, sort) ==
    IF S = {} THEN << >>
    ELSE LET first == CHOOSE i \in S : \A j \in S :
                          \/ sort.order * SortKey(i, sort.field)
                               < sort.order * SortKey(j, sort.field)
                          \/ /\ SortKey(i, sort.field) = SortKey(j, sort.field)
                             /\ i <= j
         IN  << first >> \o SortFound(S \ {first}, sort)

\* .skip(skip).limit(page_size)
SkipLimit(seq, skip, limit) ==
    SubSeq(seq, Min2(skip, Len(seq)) + 1, Min2(skip + limit, Len(seq)))

ApiImplementations == {"routes", "service"}

\* the response data of one request: BooksListData
get_books(impl, page, page_size, category, rating, min_price, max_price, sort_by) ==
    LET skip == (page - 1) * page_size
        query == IF impl = "routes"
                 THEN routes_build_query(category, rating, min_price, max_price)
                 ELSE _build_books_query(category, rating, min_price, max_price)
        found == BookFind(query)
        total_count == Cardinality(found)
        listed == SkipLimit(SortFound(found, parse_sort_field(sort_by)),
                            skip, page_size)
    IN  [current_page |-> page,
         page_size |-> page_size,
         total_pages |-> (total_count + page_size - 1) \div page_size,
         total_count |-> total_count,
         books |-> [k \in 1..Len(listed) |-> books[listed[k]].title]]

\* the catalogue the store is filled from: two categories, two prices, two
\* ratings
ApiRaws ==
    { RawRecord("a", "A", "Fiction", PyDec(1000, "10.00"), "h1"),
      [RawRecord("b", "B", "Poetry", PyDec(1200, "12.00"), "h1")
          EXCEPT !.no_of_ratings = PyInt(5)],
      RawRecord("c", "C", "Fiction", PyDec(1200, "12.00"), "h1") }

ApiCategories == {NoText, "", "Fiction", "Poetry", "NonExistent"}
ApiRatings == {PyNone, PyInt(0), PyInt(3)}
ApiPrices == {PyNone, PyInt(11)}

\* the crawler stores one more book
ApiStore(book_data) ==
    LET out == main_save_or_update_book(book_data, NoFault)
    IN  /\ Len(out.books) <= MaxApiBooks
        /\ out.stats.added = 1
        /\ books' = out.books
        /\ categories' = out.categories
        /\ changelog' = out.changelog
        /\ UNCHANGED <<now, sessions, run, call, hist>>

GetBooks(impl, page, page_size, category, rating, min_price, max_price, sort_by) ==
    /\ call.seq < MaxApiCalls
    /\ call' = [op |-> "get_books", seq |-> call.seq + 1, impl |-> impl,
                category |-> category, rating |-> rating,
                min_price |-> min_price, max_price |-> max_price,
                sort_by |-> sort_by,
                data |-> get_books(impl, page, page_size, category, rating,
                                   min_price, max_price, sort_by),
                stored |-> [books |-> books, categories |-> categories]]
    /\ UNCHANGED <<now, sessions, books, categories, changelog, run, hist>>

NextApi ==
    \/ \E book_data \in ApiRaws : ApiStore(book_data)
    \/ \E impl \in ApiImplementations, page \in 1..MaxPageSize,
          page_size \in 1..MaxPageSize, category \in ApiCategories,
          rating \in ApiRatings, min_price \in ApiPrices,
          max_price \in ApiPrices, sort_by \in SortBys :
          GetBooks(impl, page, page_size, category, rating, min_price,
                   max_price, sort_by)

SpecApi == Init /\ [][NextApi]_vars

(***************************************************************************)
(* The crawl runs with progress: crawl_all is sequential code whose awaits *)
(* return (a GET answers or times out after 10 seconds, a retry sleeps at  *)
(* most 10 seconds, the store answers), so a run that can take a step      *)
(* takes one.  Nothing is assumed of what the fetches meet.  The detail     *)
(* pages all show one book, and the clock does not tick between the runs.  *)
(***************************************************************************)
RunStep ==
    \/ \E att \in CrawlAttempts, parse_ok \in BOOLEAN, n \in 0..MaxLinks :
          /\ Canonical(att, parse_ok, n = 0)
          /\ FetchListPage(1, att, parse_ok, n)
    \/ \E att \in CrawlAttempts, parse_ok \in BOOLEAN, fault \in CrawlFaults :
          /\ Canonical(att, parse_ok, fault = NoFault)
          /\ ProcessBook(1, att, parse_ok, FirstRaw, fault)
    \/ FinishPage(1)
    \/ LoopExit(1)

NextLive ==
    \/ \E limit \in Limits, auto_resume \in BOOLEAN : Invoke(1, limit, auto_resume)
    \/ RunStep

SpecLive == Init /\ [][NextLive]_vars /\ WF_vars(RunStep)

(***************************************************************************)
(* Two workers run the scheduled task at once against the same store:      *)
(* execute_crawl() is crawl_all(limit=None), auto_resume left at True, and *)
(* nothing locks the task.  The steps of run 1 and run 2 interleave at     *)
(* every await, and resume_latest_failed_session has awaits between its    *)
(* find and its save:                                                      *)
(*   pc = "resuming"  the Failed session is found and held in memory,      *)
(*                    its save() has not been awaited yet                  *)
(***************************************************************************)
\* what the attempts of a fetch meet there: the page, a 404, or a server
\* error at every attempt
ConcAttempts ==
    { <<"ok">>, <<"404">>, [k \in 1..MaxAttempts |-> "500"] }

\* crawl_all up to the await of the find: the Failed session is found
\* (resume_latest_failed_session up to its save), or none is and
\* start_session inserts a new one
ConcInvoke(r) ==
    /\ run[r].pc \in {"idle", "returned", "raised"}
    /\ hist[r].invocations < MaxRuns
    /\ LET res == resume_latest_failed_session(SimpleCrawlManager)
           started == start_session(SimpleCrawlManager, NoLimit)
       IN  /\ res.ret \/ Len(sessions) < MaxSessions
           /\ sessions' = IF res.ret THEN sessions ELSE started.sessions
           /\ run' = [run EXCEPT ![r] =
                         IF res.ret
                         THEN [IdleRun EXCEPT
                                  !.pc = "resuming", !.m = res.m,
                                  !.limit = NoLimit, !.auto_resume = TRUE,
                                  !.resumed = TRUE]
                         ELSE [IdleRun EXCEPT
                                  !.pc = "loop", !.m = started.m,
                                  !.limit = NoLimit, !.auto_resume = TRUE,
                                  !.start_page = get_resume_page(started.m),
                                  !.page = get_resume_page(started.m)]]
           /\ hist' = [hist EXCEPT ![r] =
                         [NoHist EXCEPT
                             !.invocations = hist[r].invocations + 1,
                             !.at = now, !.stored = Len(sessions),
                             !.prev = [pc |-> run[r].pc, sid |-> run[r].m.sid,
                                       session |-> run[r].m.session]]]
    /\ UNCHANGED <<now, books, categories, changelog, call>>

\* the rest of resume_latest_failed_session and crawl_all up to the while
\* loop: the held document is saved as Running, start_page is read from it
ConcResumeSave(r) ==
    /\ run[r].pc = "resuming"
    /\ sessions' = Save(run[r].m)
    /\ run' = [run EXCEPT ![r] =
                  [@ EXCEPT !.pc = "loop",
                            !.start_page = get_resume_page(run[r].m),
                            !.page = get_resume_page(run[r].m)]]
    /\ UNCHANGED <<now, books, categories, changelog, call, hist>>

NextConcurrent ==
    \E r \in Runs :
        \/ ConcInvoke(r)
        \/ ConcResumeSave(r)
        \/ \E att \in ConcAttempts, n \in 0..MaxLinks :
              /\ Canonical(att, TRUE, n = 0)
              /\ FetchListPage(r, att, TRUE, n)
        \/ ProcessBook(r, <<"ok">>, TRUE, FirstRaw, NoFault)
        \/ FinishPage(r)

SpecConcurrent == Init /\ [][NextConcurrent]_vars

(***************************************************************************)
(* The session manager driven on its own: any sequence of calls on a       *)
(* manager, and new managers, over one session store.  run[1].m is the     *)
(* manager; call is the last call with its arguments and its outcome.      *)
(***************************************************************************)
ErrorTexts == {NoText, "", "x"}

ManagerCall(op, success, error, ret, raised) ==
    [op |-> op, seq |-> call.seq + 1, success |-> success, error |-> error,
     ret |-> ret, raised |-> raised]

\* manager = SimpleCrawlManager()
MgrNew ==
    /\ call.seq < MaxCalls
    /\ run[1].m # SimpleCrawlManager
    /\ run' = [run EXCEPT ![1].m = SimpleCrawlManager]
    /\ call' = ManagerCall("new", FALSE, NoText, FALSE, FALSE)
    /\ UNCHANGED <<now, sessions, books, categories, changelog, hist>>

MgrStart(limit) ==
    LET started == start_session(run[1].m, limit)
    IN  /\ call.seq < MaxCalls
        /\ Len(sessions) < MaxSessions
        /\ sessions' = started.sessions
        /\ run' = [run EXCEPT ![1].m = started.m]
        /\ call' = ManagerCall("start", FALSE, NoText, FALSE, FALSE)
        /\ UNCHANGED <<now, books, categories, changelog, hist>>

MgrResume ==
    LET res == resume_latest_failed_session(run[1].m)
    IN  /\ call.seq < MaxCalls
        /\ sessions' = res.sessions
        /\ run' = [run EXCEPT ![1].m = res.m]
        /\ call' = ManagerCall("resume", FALSE, NoText, res.ret, FALSE)
        /\ UNCHANGED <<now, books, categories, changelog, hist>>

MgrUpdate(completed_page, books_on_page, books_added, books_updated) ==
    LET up == update_progress(run[1].m, completed_page, books_on_page,
                              books_added, books_updated)
    IN  /\ call.seq < MaxCalls
        /\ up.m.session.total_books_processed <= MaxPage * MaxLinks
        /\ sessions' = up.sessions
        /\ run' = [run EXCEPT ![1].m = up.m]
        /\ call' = [op |-> "update", seq |-> call.seq + 1,
                    success |-> FALSE, error |-> NoText, ret |-> FALSE,
                    raised |-> FALSE,
                    args |-> [completed_page |-> completed_page,
                              books_on_page |-> books_on_page,
                              books_added |-> books_added,
                              books_updated |-> books_updated]]
        /\ UNCHANGED <<now, books, categories, changelog, hist>>

MgrComplete(success, error) ==
    LET done == complete_session(run[1].m, success, error)
    IN  /\ call.seq < MaxCalls
        /\ sessions' = done.sessions
        /\ run' = [run EXCEPT ![1].m = done.m]
        /\ call' = ManagerCall("complete", success, error, FALSE, done.raised)
        /\ UNCHANGED <<now, books, categories, changelog, hist>>

NextManager ==
    \/ Tick
    \/ MgrNew
    \/ \E limit \in Limits : MgrStart(limit)
    \/ MgrResume
    \/ \E completed_page \in 1..MaxPage, books_on_page \in 0..MaxLinks,
          books_added \in 0..MaxLinks, books_updated \in 0..MaxLinks :
          /\ books_added + books_updated <= books_on_page
          /\ MgrUpdate(completed_page, books_on_page, books_added, books_updated)
    \/ \E success \in BOOLEAN, error \in ErrorTexts : MgrComplete(success, error)

SpecManager == Init /\ [][NextManager]_vars

(***************************************************************************)
(* The record reconcilers driven on their own: any sequence of calls of    *)
(* either save_or_update_book, on any raw record, with any persistence     *)
(* failure, while time passes.  call is the last call with its arguments   *)
(* and its outcome, and what the call before it was given (last).          *)
(***************************************************************************)
Without(raw, key) == [k \in (DOMAIN raw) \ {key} |-> raw[k]]

\* raw records: the detail page of book "a" at two prices, the first price
\* written with one decimal, the page with other untracked fields (name,
\* category, snapshot), and the record with a key missing or an empty title
ReconcileRaws ==
    LET a == RawRecord("a", "A", "Fiction", PyDec(1000, "10.00"), "h1")
    IN  { a,
          RawRecord("a", "A", "Fiction", PyDec(1200, "12.00"), "h2"),
          RawRecord("a", "A2", "Poetry", PyDec(1000, "10.00"), "h3"),
          [a EXCEPT !.price_with_tax = PyDec(1000, "10.0")],
          [a EXCEPT !.title = PyStr("")],
          Without(a, "availability"),
          Without(a, "title"),
          Without(a, "category") }

Implementations == {"utils", "main"}

save_or_update_book(impl, book_data, fault) ==
    IF impl = "utils"
    THEN utils_save_or_update_book(book_data, fault)
    ELSE main_save_or_update_book(book_data, fault)

\* a failure of an operation the call never reaches is no failure
Reached(impl, book_data, fault) ==
    \/ fault = NoFault
    \/ save_or_update_book(impl, book_data, fault)
           # save_or_update_book(impl, book_data, NoFault)

Succeeded(c) == c.op = "reconcile" /\ ~c.raised /\ c.stats.errors = 0

Reconcile(impl, book_data, fault) ==
    LET out == save_or_update_book(impl, book_data, fault)
    IN  /\ call.seq < MaxReconciles
        /\ Reached(impl, book_data, fault)
        /\ books' = out.books
        /\ categories' = out.categories
        /\ changelog' = out.changelog
        /\ call' = [op |-> "reconcile", seq |-> call.seq + 1, impl |-> impl,
                    raw |-> book_data, fault |-> fault, stats |-> out.stats,
                    raised |-> out.raised,
                    last |-> IF call.op = "reconcile"
                             THEN [raw |-> call.raw, ok |-> Succeeded(call)]
                             ELSE [raw |-> << >>, ok |-> FALSE]]
        /\ UNCHANGED <<now, sessions, run, hist>>

NextReconcile ==
    \/ Tick
    \/ \E impl \in Implementations, book_data \in ReconcileRaws, fault \in Faults :
          Reconcile(impl, book_data, fault)

SpecReconcile == Init /\ [][NextReconcile]_vars

(***************************************************************************)
(* The reconcilers on records of two titles under every kind of category   *)
(* name: a name, the sentinel "Unknown", the empty and the blank string,   *)
(* None, and no category key at all.                                       *)
(***************************************************************************)
StoreTitles == {"a", "b"}
StoreCategories == {"Fiction", "Unknown", "", " "}

StoreRaws ==
    LET a == RawRecord("a", "A", "Fiction", PyDec(1000, "10.00"), "h1")
    IN  { RawRecord(t, "A", c, PyDec(1000, "10.00"), "h1") :
              t \in StoreTitles, c \in StoreCategories }
        \cup { [a EXCEPT !.category = PyNone], Without(a, "category") }

NextStore ==
    \E impl \in Implementations, book_data \in StoreRaws, fault \in Faults :
        Reconcile(impl, book_data, fault)

SpecStore == Init /\ [][NextStore]_vars

(***************************************************************************)
(* Properties of the crawl runs (Spec).                                    *)
(***************************************************************************)
StoredSession(r) == sessions[run[r].m.sid]

\* C1: a page-level error only counts towards a circuit breaker: crawl_all
\* raises only once three page-level errors have been met in the run, or
\* when the erroring page is the configured limit.
C1_BreakerTripsAtThree ==
    \A r \in Runs :
        run[r].pc = "raised" =>
            \/ hist[r].page_errors >= 3
            \/ run[r].page = run[r].limit

\* C2: when crawl_all has raised, the active session is stored Failed, with
\* end_time set and error_message the text of the error; and the error is a
\* page-level one: never a failure of one book, never a 404 of a list page.
C2_RaisedAfterFailed ==
    \A r \in Runs :
        run[r].pc = "raised" =>
            /\ run[r].m.sid # NoSession
            /\ StoredSession(r).status = "failed"
            /\ StoredSession(r).end_time # NoTime
            /\ run[r].exc # NoText
            /\ StoredSession(r).error_message = run[r].exc
            /\ hist[r].last \in {"list_error", "list_parse_error"}
            /\ hist[r].completions = 0

C2_Witness ==
    \E r \in Runs :
        /\ run[r].pc = "raised"
        /\ hist[r].last = "list_error"
        /\ hist[r].run_books = 1

\* C3: when a list page answers 404, crawl_all returns: the session is stored
\* Completed without error_message, no page-level error was met,
\* last_completed_page is the last page completed before the 404, and
\* pages_processed is the number of pages completed in this run.
C3_NotFoundEndsCleanly ==
    \A r \in Runs :
        (run[r].pc = "returned" /\ hist[r].last = "list_404") =>
            /\ StoredSession(r).status = "completed"
            /\ StoredSession(r).error_message = NoText
            /\ run[r].exc = NoText
            /\ hist[r].page_errors = 0
            /\ StoredSession(r).last_completed_page =
                   run[r].start_page - 1 + hist[r].pages_done
            /\ run[r].result.pages_processed = hist[r].pages_done

C3_Witness ==
    \E r \in Runs :
        /\ run[r].pc = "returned"
        /\ hist[r].last = "list_404"
        /\ run[r].start_page = 1
        /\ hist[r].fetched = {1, 2}
        /\ run[r].result.pages_processed = 1

\* C4: once a list page was fetched and held no link, the run fetches no
\* later list page.
C4_EmptyPageEndsCatalog ==
    \A r \in Runs : ~hist[r].fetched_after_empty

\* the step that invokes crawl_all with auto_resume
InvokeAutoResume ==
    /\ hist'[1].invocations = hist[1].invocations + 1
    /\ run'[1].auto_resume

NoRecentFailed ==
    \A i \in 1..Len(sessions) :
        sessions[i].status = "failed" => now - sessions[i].start_time > StaleHours

\* C6: with no Failed session, or the Failed sessions all started more than
\* 24 hours ago, resume_latest_failed_session returns False and changes
\* nothing, and crawl_all appends a fresh session (Running,
\* last_completed_page 0, counters 0), adopts it and starts at page 1; the
\* stored sessions stay as they were.
C6_NoResumeStartsFresh ==
    [][ (InvokeAutoResume /\ NoRecentFailed) =>
          LET n == Len(sessions)
          IN  /\ resume_latest_failed_session(SimpleCrawlManager) =
                     [ret |-> FALSE, m |-> SimpleCrawlManager,
                      sessions |-> sessions]
              /\ ~run'[1].resumed
              /\ Len(sessions') = n + 1
              /\ \A i \in 1..n : sessions'[i] = sessions[i]
              /\ sessions'[n + 1].status = "running"
              /\ sessions'[n + 1].last_completed_page = 0
              /\ sessions'[n + 1].total_books_processed = 0
              /\ sessions'[n + 1].books_added = 0
              /\ sessions'[n + 1].books_updated = 0
              /\ sessions'[n + 1].error_message = NoText
              /\ run'[1].m.sid = n + 1
              /\ run'[1].start_page = 1
              /\ run'[1].page = 1 ]_vars

C6_Witness ==
    /\ run[1].pc = "loop"
    /\ hist[1].last = "none"
    /\ run[1].auto_resume
    /\ ~run[1].resumed
    /\ run[1].m.sid = 2
    /\ sessions[1].status = "failed"
    /\ now - sessions[1].start_time > StaleHours

\* C7: a run invoked with auto_resume after a run that failed, within 24
\* hours of the start of that run's session, creates no session, adopts the
\* same session, starts at last_completed_page + 1, fetches no list page at
\* or below the last_completed_page recorded at the failure, and the
\* counters are their values at the failure plus the totals of the pages
\* completed since.
C7_ResumeContinues ==
    \A r \in Runs :
        LET failed == hist[r].prev.session
        IN  ( /\ run[r].pc # "idle"
              /\ run[r].auto_resume
              /\ hist[r].prev.pc = "raised"
              /\ hist[r].at - failed.start_time <= StaleHours ) =>
                /\ Len(sessions) = hist[r].stored
                /\ run[r].resumed
                /\ run[r].m.sid = hist[r].prev.sid
                /\ run[r].start_page = failed.last_completed_page + 1
                /\ \A p \in hist[r].fetched : p > failed.last_completed_page
                /\ StoredSession(r).total_books_processed =
                       failed.total_books_processed + hist[r].run_books
                /\ StoredSession(r).books_added =
                       failed.books_added + hist[r].run_added
                /\ StoredSession(r).books_updated =
                       failed.books_updated + hist[r].run_updated

C7_Witness ==
    \E r \in Runs :
        /\ run[r].pc = "returned"
        /\ run[r].resumed
        /\ hist[r].prev.pc = "raised"
        /\ hist[r].prev.session.last_completed_page = 1
        /\ hist[r].prev.session.total_books_processed = 1
        /\ hist[r].pages_done = 1
        /\ hist[r].run_books = 1
        /\ StoredSession(r).total_books_processed = 2

\* C8: every stored session with an error_message is Failed, and every
\* Completed session has no error_message.
C8_ErrorMessageIffFailed ==
    \A i \in 1..Len(sessions) :
        /\ sessions[i].error_message # NoText => sessions[i].status = "failed"
        /\ sessions[i].status = "completed" => sessions[i].error_message = NoText

C8_Witness ==
    \E r \in Runs :
        /\ run[r].pc = "returned"
        /\ run[r].resumed
        /\ hist[r].prev.session.error_message # NoText
        /\ StoredSession(r).status = "completed"


\* C26: over crawl runs made one after another, the last_completed_page of
\* a stored session never decreases; it changes only when the run that owns
\* the session completes a page, and then by exactly 1, to the page just
\* crawled, the k-th page completed in a run being start_page + k - 1; a run
\* in its loop is always at the page after the stored last_completed_page.
C26_PagesAdvanceByOne ==
    [][ /\ \A i \in 1..Len(sessions) :
              /\ sessions'[i].last_completed_page
                    >= sessions[i].last_completed_page
              /\ sessions'[i].last_completed_page
                    # sessions[i].last_completed_page =>
                    /\ run[1].m.sid = i
                    /\ hist'[1].last = "page_done"
                    /\ hist'[1].pages_done = hist[1].pages_done + 1
                    /\ sessions'[i].last_completed_page
                          = sessions[i].last_completed_page + 1
                    /\ sessions'[i].last_completed_page = run[1].page
                    /\ sessions'[i].last_completed_page
                          = run[1].start_page + hist[1].pages_done
        /\ run'[1].pc \in {"loop", "books"} =>
              run'[1].page
                 = sessions'[run'[1].m.sid].last_completed_page + 1 ]_vars

C26_Witness ==
    /\ run[1].resumed
    /\ run[1].start_page = 2
    /\ run[1].pc = "loop"
    /\ run[1].page = 3
    /\ hist[1].last = "page_done"
    /\ hist[1].pages_done = 1
    /\ StoredSession(1).last_completed_page = 2

\* C27: the last_completed_page of a run's session is set to p only in the
\* step that ends crawl_page(p): the list page p was fetched and parsed
\* (the for loop is entered only so, at link 1), the links were handled one
\* by one and none is left.  A run that raises while at page p leaves the
\* stored last_completed_page below p, and the stored last_completed_page
\* is always start_page - 1 + the number of update_progress calls made.
C27_CheckpointAfterFullPage ==
    [][ /\ ( /\ run[1].pc \in {"loop", "books"}
             /\ sessions'[run[1].m.sid].last_completed_page
                   # sessions[run[1].m.sid].last_completed_page ) =>
               /\ run[1].pc = "books"
               /\ run[1].idx = run[1].links + 1
               /\ run[1].page \in hist[1].fetched
               /\ sessions'[run[1].m.sid].last_completed_page = run[1].page
               /\ hist'[1].pages_done = hist[1].pages_done + 1
        /\ (run'[1].pc = "books" /\ run[1].pc # "books") =>
               /\ run[1].pc = "loop"
               /\ hist'[1].last = "list_ok"
               /\ run'[1].page = run[1].page
               /\ run'[1].idx = 1
               /\ sessions' = sessions
        /\ (run'[1].pc = "books" /\ run[1].pc = "books" /\ run'[1] # run[1]) =>
               /\ run[1].idx <= run[1].links
               /\ run'[1].idx = run[1].idx + 1
               /\ sessions' = sessions
        /\ (run'[1].pc = "raised" /\ run[1].pc \in {"loop", "books"}) =>
               /\ sessions'[run[1].m.sid].status = "failed"
               /\ sessions'[run[1].m.sid].last_completed_page < run[1].page
               /\ sessions'[run[1].m.sid].last_completed_page
                     = sessions[run[1].m.sid].last_completed_page
        /\ run'[1].pc # "idle" =>
               sessions'[run'[1].m.sid].last_completed_page
                  = run'[1].start_page - 1 + hist'[1].pages_done ]_vars

C27_Witness ==
    /\ run[1].pc = "raised"
    /\ run[1].start_page = 1
    /\ run[1].page = 2
    /\ hist[1].pages_done = 1
    /\ hist[1].last = "list_parse_error"
    /\ 2 \in hist[1].fetched
    /\ StoredSession(1).status = "failed"
    /\ StoredSession(1).last_completed_page = 1
    /\ StoredSession(1).total_books_processed = 1

\* C28: a run with a limit fetches no list page beyond the limit; a run
\* that has returned called complete_session(success=True) exactly once and
\* its session is Completed; a new session's run that ends by exhausting its
\* limit L has fetched and completed exactly the pages 1..L, with
\* last_completed_page = L and pages_processed = L.
C28_LimitBoundsTheRun ==
    /\ (run[1].pc # "idle" /\ run[1].limit # NoLimit) =>
          \A p \in hist[1].fetched : p <= run[1].limit
    /\ hist[1].completions = IF run[1].pc = "returned" THEN 1 ELSE 0
    /\ run[1].pc = "returned" =>
          /\ StoredSession(1).status = "completed"
          /\ StoredSession(1).end_time # NoTime
    /\ ( /\ run[1].pc = "returned"
         /\ ~run[1].resumed
         /\ run[1].limit # NoLimit
         /\ hist[1].last = "limit" ) =>
          /\ hist[1].fetched = 1..run[1].limit
          /\ hist[1].pages_done = run[1].limit
          /\ StoredSession(1).last_completed_page = run[1].limit
          /\ run[1].result.pages_processed = run[1].limit

C28_Witness ==
    /\ run[1].pc = "returned"
    /\ ~run[1].resumed
    /\ run[1].limit = 2
    /\ hist[1].last = "limit"
    /\ hist[1].fetched = {1, 2}
    /\ StoredSession(1).status = "completed"
    /\ StoredSession(1).last_completed_page = 2
    /\ run[1].result.pages_processed = 2

\* C29: every run that is in its loop ends, returned with its session
\* Completed or raised with its session Failed, whatever the fetches meet;
\* the session of a run that has returned or raised is never Running.
C29_RunTerminates ==
    /\ [](run[1].pc = "returned" => StoredSession(1).status = "completed")
    /\ [](run[1].pc = "raised" => StoredSession(1).status = "failed")
    /\ (run[1].pc \in {"loop", "books"} /\ run[1].limit # NoLimit)
          ~> (run[1].pc \in {"returned", "raised"})
    /\ (run[1].pc \in {"loop", "books"} /\ run[1].limit = NoLimit)
          ~> (run[1].pc \in {"returned", "raised"}
                /\ hist[1].last \in {"list_404", "list_error",
                                     "list_parse_error"})

C29_Witness ==
    /\ run[1].pc = "returned"
    /\ run[1].limit = NoLimit
    /\ hist[1].last = "list_404"
    /\ hist[1].pages_done = 2
    /\ hist[1].fetched = {1, 2, 3}
    /\ StoredSession(1).status = "completed"

\* one iteration of crawl_page's for loop by run 1
BookStep ==
    /\ run[1].pc = "books" /\ run'[1].pc = "books"
    /\ run'[1].idx = run[1].idx + 1

\* C34: in every state of any sequence of crawl runs the three counters of
\* every session are non-negative and books_added + books_updated <=
\* total_books_processed; no step makes a counter smaller; and one book of a
\* page adds at most 1 to the page's books_processed and at most 1 to its
\* total_added + total_updated, a book that failed adding 0 to all three.
C34_CountersMonotone ==
    /\ [](\A i \in 1..Len(sessions) :
             /\ sessions[i].total_books_processed >= 0
             /\ sessions[i].books_added >= 0
             /\ sessions[i].books_updated >= 0
             /\ sessions[i].books_added + sessions[i].books_updated
                    <= sessions[i].total_books_processed)
    /\ [][\A i \in 1..Len(sessions) :
             /\ sessions'[i].total_books_processed
                    >= sessions[i].total_books_processed
             /\ sessions'[i].books_added >= sessions[i].books_added
             /\ sessions'[i].books_updated >= sessions[i].books_updated]_vars
    /\ [][BookStep =>
            LET done == run'[1].books_processed - run[1].books_processed
                added == run'[1].total_added - run[1].total_added
                updated == run'[1].total_updated - run[1].total_updated
            IN  /\ done \in {0, 1}
                /\ added \in {0, 1} /\ updated \in {0, 1}
                /\ added + updated <= done
                /\ hist'[1].last = "book_failed" =>
                       done = 0 /\ added = 0 /\ updated = 0]_vars

\* a session that counted two books over two completed pages, one added
\* and one updated
C34_Witness ==
    /\ Len(sessions) >= 1
    /\ sessions[1].total_books_processed = 2
    /\ sessions[1].books_added = 1
    /\ sessions[1].books_updated = 1
    /\ hist[1].last = "page_done"

RunningSessions == { i \in 1..Len(sessions) : sessions[i].status = "running" }

\* C35: with crawl runs invoked one after another, at most one stored
\* session is running at any time, it is the session of the run in progress,
\* and between two runs (before the first, after a run returned or raised)
\* no session is running.
C35_OneRunningSession ==
    /\ Cardinality(RunningSessions) <= 1
    /\ run[1].pc \in {"loop", "books"} => RunningSessions = {run[1].m.sid}
    /\ run[1].pc \in {"idle", "returned", "raised"} => RunningSessions = {}

\* the second run in progress on a session of its own, the session of the
\* first run stored as failed
C35_Witness ==
    /\ Len(sessions) = 2
    /\ run[1].pc = "books"
    /\ run[1].m.sid = 2
    /\ sessions[1].status = "failed"
    /\ sessions[2].status = "running"
    /\ hist[1].invocations = 2

\* C32: a stored session has an end_time exactly when its status is terminal
\* (completed or failed); a running session, one resumed from failed
\* included, has none.
C32_EndTimeIffTerminal ==
    \A i \in 1..Len(sessions) :
        sessions[i].end_time # NoTime
            <=> sessions[i].status \in {"completed", "failed"}

(***************************************************************************)
(* Properties of the session manager (SpecManager).                        *)
(***************************************************************************)
ManagerStep(op) ==
    /\ call'.seq = call.seq + 1
    /\ call'.op = op

\* session i is Failed and no other Failed session started after it
MostRecentFailed(i) ==
    /\ sessions[i].status = "failed"
    /\ \A j \in 1..Len(sessions) :
          sessions[j].status = "failed" =>
              \/ sessions[j].start_time < sessions[i].start_time
              \/ sessions[j].start_time = sessions[i].start_time /\ j <= i

\* C5: when the Failed session started last started at most 24 hours ago,
\* resume_latest_failed_session returns True; that session and no other
\* becomes Running with error_message cleared and everything else as it was,
\* the manager adopts it, and get_resume_page is its last_completed_page + 1,
\* whatever Completed or Running sessions started after it.
C5_ResumesLatestFailed ==
    [][ \A i \in 1..Len(sessions) :
          ( /\ ManagerStep("resume")
            /\ MostRecentFailed(i)
            /\ now - sessions[i].start_time <= StaleHours ) =>
              /\ call'.ret
              /\ Len(sessions') = Len(sessions)
              /\ sessions'[i] = [sessions[i] EXCEPT !.status = "running",
                                                    !.error_message = NoText]
              /\ \A j \in 1..Len(sessions) : j # i => sessions'[j] = sessions[j]
              /\ run'[1].m.sid = i
              /\ run'[1].m.session = sessions'[i]
              /\ get_resume_page(run'[1].m) = sessions[i].last_completed_page + 1
      ]_vars

C5_Witness ==
    /\ call.op = "resume"
    /\ call.ret
    /\ Len(sessions) = 2
    /\ run[1].m.sid = 1
    /\ sessions[1].status = "running"
    /\ sessions[1].last_completed_page = 2
    /\ sessions[1].total_books_processed = 1
    /\ sessions[1].end_time # NoTime
    /\ sessions[2].status # "failed"
    /\ sessions[2].start_time > sessions[1].start_time
    /\ get_resume_page(run[1].m) = 3

\* C9: complete_session(success=True, error) with a non-empty error raises,
\* with or without an active session, and changes neither the manager's
\* session nor the stored sessions.
C9_SuccessWithErrorRaises ==
    [][ ( /\ ManagerStep("complete")
          /\ call'.success
          /\ call'.error \notin {NoText, ""} ) =>
            /\ call'.raised
            /\ run'[1].m = run[1].m
            /\ sessions' = sessions ]_vars


\* C22: the status of a stored session changes only from Running to
\* Completed, from Running to Failed, or from Failed to Running in a call
\* of resume_latest_failed_session.
C22_StatusTransitions ==
    [][ \A i \in 1..Len(sessions) :
          sessions'[i].status # sessions[i].status =>
              \/ /\ sessions[i].status = "running"
                 /\ sessions'[i].status \in {"completed", "failed"}
              \/ /\ sessions[i].status = "failed"
                 /\ sessions'[i].status = "running"
                 /\ ManagerStep("resume") ]_vars

\* C25: update_progress on a manager with a session stores that session
\* with last_completed_page = completed_page, the three counters increased
\* by the arguments and every other field as it was, and touches no other
\* session; on a manager without a session it changes nothing.  After every
\* call get_resume_page is last_completed_page + 1 of the manager's session,
\* and 1 when it has none.
C25_UpdateProgressFrame ==
    [][ /\ ManagerStep("update") =>
             IF run[1].m.sid = NoSession
             THEN /\ sessions' = sessions
                  /\ run'[1].m = run[1].m
             ELSE /\ sessions' =
                       [sessions EXCEPT ![run[1].m.sid] =
                           [@ EXCEPT
                               !.last_completed_page =
                                   call'.args.completed_page,
                               !.total_books_processed =
                                   @ + call'.args.books_on_page,
                               !.books_added = @ + call'.args.books_added,
                               !.books_updated = @ + call'.args.books_updated]]
                  /\ run'[1].m.sid = run[1].m.sid
                  /\ run'[1].m.session = sessions'[run[1].m.sid]
                  /\ get_resume_page(run'[1].m) = call'.args.completed_page + 1
        /\ get_resume_page(run'[1].m) =
              IF run'[1].m.sid = NoSession THEN 1
              ELSE sessions'[run'[1].m.sid].last_completed_page + 1 ]_vars

C25_Witness ==
    /\ call.op = "update"
    /\ call.args = [completed_page |-> 2, books_on_page |-> 1,
                    books_added |-> 0, books_updated |-> 1]
    /\ run[1].m.sid = 1
    /\ sessions[1].status = "running"
    /\ sessions[1].end_time # NoTime
    /\ sessions[1].last_completed_page = 2
    /\ sessions[1].total_books_processed = 2
    /\ sessions[1].books_added = 1
    /\ sessions[1].books_updated = 1
    /\ get_resume_page(run[1].m) = 3

(***************************************************************************)
(* Properties of the record reconcilers (SpecReconcile).                   *)
(***************************************************************************)
ReconcileStep ==
    /\ call'.seq = call.seq + 1
    /\ call'.op = "reconcile"

\* C10: a call that succeeds on a raw record whose title has no Book reports
\* added = 1 and updated = 0; and a call given the raw record of a call that
\* succeeded just before it reports added = 0 and updated = 0, writes no
\* ChangeLog entry and leaves the Books (fields, content_hash, updated_at) as
\* they are.
C10_ReconcileTwice ==
    [][ ReconcileStep =>
          /\ ( /\ Succeeded(call')
               /\ BookFindOne(GetOr(call'.raw, "title", PyStr(""))) = 0 ) =>
                 (call'.stats.added = 1 /\ call'.stats.updated = 0)
          /\ ( /\ Succeeded(call)
               /\ call'.raw = call.raw ) =>
                 /\ call'.stats.added = 0
                 /\ call'.stats.updated = 0
                 /\ changelog' = changelog
                 /\ books' = books ]_vars

C10_Witness ==
    /\ call.op = "reconcile"
    /\ call.last.ok
    /\ call.last.raw = call.raw
    /\ Succeeded(call)
    /\ call.stats.added = 0
    /\ Len(books) = 1
    /\ books[1].content_hash = generate_hash(call.raw)
    /\ books[1].updated_at > ModuleLoadTime
    /\ books[1].updated_at < now
    /\ Len(changelog) > 0


\* the raw records parse_book_details can return: all thirteen keys, and a
\* title
CompleteRaw(raw) ==
    /\ \A k \in DOMAIN RawRecord("a", "A", "Fiction", PyInt(0), "h") :
          k \in DOMAIN raw
    /\ ~Falsy(raw.title)

RawTitle(raw) == GetOr(raw, "title", PyStr(""))

\* C11: a call on a raw record whose title has no Book, when it succeeds,
\* appends exactly one Book, with the raw record's title and content_hash =
\* generate_hash(raw record), leaves the other Books as they are, writes no
\* ChangeLog entry and reports added = 1, updated = 0; and it does succeed on
\* a complete raw record when no persistence operation fails.
C11_InsertsNewRecord ==
    [][ ( /\ ReconcileStep
          /\ BookFindOne(RawTitle(call'.raw)) = 0 ) =>
            /\ (call'.fault = NoFault /\ CompleteRaw(call'.raw)) =>
                   Succeeded(call')
            /\ Succeeded(call') =>
                 /\ Len(books') = Len(books) + 1
                 /\ \A i \in 1..Len(books) : books'[i] = books[i]
                 /\ books'[Len(books')].title = RawTitle(call'.raw)
                 /\ books'[Len(books')].content_hash = generate_hash(call'.raw)
                 /\ changelog' = changelog
                 /\ call'.stats = Stats(1, 0, 0) ]_vars

C11_Witness ==
    /\ call.op = "reconcile"
    /\ call.impl = "utils"
    /\ call.seq = 1
    /\ call.stats = Stats(1, 0, 0)
    /\ Len(books) = 1
    /\ books[1].title = PyStr("a")
    /\ books[1].content_hash = generate_hash(call.raw)
    /\ changelog = << >>


\* the tracked fields whose stored value differs from the raw value (Python's
\* !=), in allowlist order, and the ChangeLog entries they call for
ChangedFields(doc, raw) ==
    SelectSeq(BOOK_FIELDS_TO_TRACK, LAMBDA f : ~PyEq(doc[f], Get(raw, f)))

ExpectedEntries(doc, raw) ==
    [k \in 1..Len(ChangedFields(doc, raw)) |->
        [book |-> doc.title,
         field_changed |-> ChangedFields(doc, raw)[k],
         old_value |-> OptStr(doc[ChangedFields(doc, raw)[k]]),
         new_value |-> OptStr(Get(raw, ChangedFields(doc, raw)[k]))]]

InSeq(x, seq) == \E k \in 1..Len(seq) : seq[k] = x

C13_HashMatchIsNoOp ==
    [][ \A i \in 1..Len(books) :
          LET raw == call'.raw
          IN  ( /\ ReconcileStep
                /\ call'.fault = NoFault
                /\ call'.impl = "main" => "category" \in DOMAIN raw
                /\ ~Falsy(RawTitle(raw))
                /\ BookFindOne(RawTitle(raw)) = i
                /\ books[i].content_hash = generate_hash(raw) ) =>
                  /\ ~call'.raised
                  /\ call'.stats = Stats(0, 0, 0)
                  /\ books' = books
                  /\ changelog' = changelog ]_vars

C13_Witness ==
    /\ call.op = "reconcile"
    /\ call.stats = Stats(0, 0, 0)
    /\ ~call.raised
    /\ Len(books) = 1
    /\ books[1].content_hash = generate_hash(call.raw)
    /\ call.raw.name = PyStr("A2")
    /\ books[1].name = PyStr("A")
    /\ call.raw.raw_html = PyStr("h3")
    /\ books[1].raw_html = PyStr("h1")
    /\ books[1].category = "Fiction"


\* C14: after a call that succeeded, the Book of the raw record's title has
\* content_hash = generate_hash of its own tracked fields.
C14_HashReflectsTrackedFields ==
    LET i == BookFindOne(RawTitle(call.raw))
    IN  (Succeeded(call) /\ i # 0) =>
            books[i].content_hash = generate_hash(books[i])


PersistenceFailures ==
    {"category_find", "category_insert", "book_find", "book_insert", "book_save"}

\* C15: save_or_update_book of crawler/utils.py never raises; a call in
\* which the category lookup or insert, the Book lookup, the Book insert or
\* the Book save fails returns errors = 1, added = 0 and updated = 0.
C15_UtilsNeverRaises ==
    [][ (ReconcileStep /\ call'.impl = "utils") =>
          /\ ~call'.raised
          /\ call'.fault.op \in PersistenceFailures =>
                 call'.stats = Stats(0, 0, 1) ]_vars

C15_Witness ==
    /\ call.op = "reconcile"
    /\ call.impl = "utils"
    /\ call.fault.op = "book_save"
    /\ ~call.raised
    /\ call.stats = Stats(0, 0, 1)
    /\ Len(books) = 1
    /\ books[1].content_hash # generate_hash(call.raw)


\* C16: save_or_update_book of crawler/utils.py, on a raw record whose title
\* is missing or empty, raises nothing, returns added = 0, updated = 0 and
\* errors = 1, and leaves the Books and the ChangeLog as they are.
C16_NoTitleIsAnError ==
    [][ ( /\ ReconcileStep
          /\ call'.impl = "utils"
          /\ \/ "title" \notin DOMAIN call'.raw
             \/ call'.raw.title = PyStr("") ) =>
            /\ ~call'.raised
            /\ call'.stats = Stats(0, 0, 1)
            /\ books' = books
            /\ changelog' = changelog ]_vars

C16_Witness ==
    /\ call.op = "reconcile"
    /\ call.impl = "utils"
    /\ call.fault = NoFault
    /\ "title" \in DOMAIN call.raw
    /\ call.raw.title = PyStr("")
    /\ call.stats = Stats(0, 0, 1)
    /\ books = << >>
    /\ categories = << "Fiction" >>


\* C24: when the Record exists, its content_hash differs from
\* generate_hash(raw) and detect_changes(existing, raw) is empty, the
\* reconciler of crawler/utils returns 0/0/0 and leaves the books and the
\* change log as they were.
C24_HashDiffersNoChange ==
    [][ ( /\ ReconcileStep
          /\ call'.impl = "utils"
          /\ call'.fault = NoFault
          /\ "title" \in DOMAIN call'.raw
          /\ BookFindOne(call'.raw.title) # 0
          /\ books[BookFindOne(call'.raw.title)].content_hash
                # generate_hash(call'.raw)
          /\ ChangedFields(books[BookFindOne(call'.raw.title)], call'.raw) = << >> )
        =>
          /\ ~call'.raised
          /\ call'.stats = Stats(0, 0, 0)
          /\ books' = books
          /\ changelog' = changelog ]_vars

C24_Witness ==
    /\ call.op = "reconcile"
    /\ call.impl = "utils"
    /\ call.fault = NoFault
    /\ call.last.ok
    /\ call.last.raw = RawRecord("a", "A", "Fiction", PyDec(1000, "10.00"), "h1")
    /\ call.raw = [call.last.raw EXCEPT !.price_with_tax = PyDec(1000, "10.0")]
    /\ Len(books) = 1
    /\ books[1].content_hash # generate_hash(call.raw)
    /\ books[1].price_with_tax = PyDec(1000, "10.00")
    /\ call.stats = Stats(0, 0, 0)
    /\ changelog = << >>

(***************************************************************************)
(* Properties of the page loop (SpecPage).                                 *)
(***************************************************************************)
\* C17: in a page, every step either handles the next link (idx advances by
\* one, the stored sessions are untouched, and a book that failed adds
\* nothing to the page's totals) or, all links handled, checkpoints the page
\* through update_progress with the session still Running; no failure of a
\* book ends the page or the run.
C17_BookFailureAbsorbed ==
    [][ (run[1].pc = "books" /\ run'[1] # run[1]) =>
          IF run'[1].pc = "books"
          THEN /\ run[1].idx <= run[1].links
               /\ run'[1].idx = run[1].idx + 1
               /\ run'[1].links = run[1].links
               /\ run'[1].page = run[1].page
               /\ sessions' = sessions
               /\ StoredSession(1).status = "running"
               /\ hist'[1].last \in {"book_ok", "book_failed"}
               /\ hist'[1].last = "book_failed" =>
                    /\ run'[1].total_added = run[1].total_added
                    /\ run'[1].total_updated = run[1].total_updated
                    /\ run'[1].books_processed = run[1].books_processed
          ELSE /\ run[1].idx = run[1].links + 1
               /\ run'[1].pc = "loop"
               /\ run'[1].page = run[1].page + 1
               /\ sessions'[run[1].m.sid] =
                      [StoredSession(1) EXCEPT
                          !.last_completed_page = run[1].page,
                          !.total_books_processed = @ + run[1].books_processed,
                          !.books_added = @ + run[1].total_added,
                          !.books_updated = @ + run[1].total_updated]
               /\ sessions'[run[1].m.sid].status = "running" ]_vars

C17_Witness ==
    /\ run[1].pc = "loop"
    /\ hist[1].last = "page_done"
    /\ run[1].links = 3
    /\ run[1].books_processed = 1
    /\ run[1].total_added = 0
    /\ run[1].total_updated = 1
    /\ StoredSession(1).status = "running"
    /\ StoredSession(1).last_completed_page = 1
    /\ StoredSession(1).total_books_processed = 1
    /\ StoredSession(1).books_updated = 1


(***************************************************************************)
(* Properties of the fetcher (SpecFetch).                                  *)
(***************************************************************************)
\* C18: one call of fetch_html makes at most 3 attempts; only the last
\* attempt made can be a success or a 404, a 404 ends the call with that
\* 404, a success ends it with the HTML, and any other failure ends it only
\* as the third, with an error carrying that last failure.
C18_AtMostThreeAttempts ==
    call.op = "fetch" =>
        /\ Len(call.att) <= 3
        /\ \A k \in 1..(Len(call.att) - 1) : call.att[k] \notin {"ok", "404"}
        /\ call.pc # "done" =>
              /\ Len(call.att) < 3
              /\ \A k \in 1..Len(call.att) : call.att[k] \notin {"ok", "404"}
        /\ call.pc = "done" =>
              /\ Len(call.att) >= 1
              /\ call.res = fetch_html(call.att).res
              /\ call.last = call.att[Len(call.att)]
              /\ call.res =
                   IF call.last = "ok" THEN "ok"
                   ELSE IF call.last = "404" THEN "HTTPStatusError404"
                   ELSE "RetryError"
              /\ call.res = "RetryError" => Len(call.att) = 3

C18_Witness ==
    /\ call.op = "fetch"
    /\ call.pc = "done"
    /\ call.att = << "500", "timeout", "500" >>
    /\ call.res = "RetryError"

\* C19: the wait after the k-th failed attempt is min(10, 2 * 2^(k-1)): 2
\* after the first and 4 after the second.
C19_WaitsDouble ==
    call.op = "fetch" =>
        \A k \in 1..Len(call.waits) :
            call.waits[k] = Min2(10, 2 * Pow(2, k - 1))


(***************************************************************************)
(* Properties of detect_changes (SpecDetect).                              *)
(***************************************************************************)
FieldsOf(changes) == { changes[i].field : i \in 1..Len(changes) }

\* C20: the keys of detect_changes(old, new) are exactly the tracked fields
\* whose values differ (a missing key reads as None), each key once and with
\* the old and the new value read from the two dicts; a field outside the
\* allowlist is never a key, and nothing is returned when no tracked field
\* differs.
C20_DetectsExactlyTrackedDiffs ==
    call.op = "detect" =>
        LET ch == call.changes
            differing == { f \in TrackedSet :
                             ~PyEq(Get(call.old, f), Get(call.new, f)) }
        IN  /\ FieldsOf(ch) = differing
            /\ Len(ch) = Cardinality(differing)
            /\ \A i \in 1..Len(ch) :
                  /\ ch[i].old = Get(call.old, ch[i].field)
                  /\ ch[i].new = Get(call.new, ch[i].field)
            /\ "name" \notin FieldsOf(ch)
            /\ differing = {} => ch = << >>

C20_Witness ==
    /\ call.op = "detect"
    /\ Get(call.old, "name") = PyStr("A")
    /\ Get(call.new, "name") = PyStr("B")
    /\ "availability" \notin DOMAIN call.old
    /\ Get(call.new, "availability") = PyStr("In stock")
    /\ Get(call.old, "price_with_tax") = PyInt(10)
    /\ Get(call.new, "price_with_tax") = PyDec(1000, "10.00")
    /\ call.changes = << [field |-> "availability", old |-> PyNone,
                          new |-> PyStr("In stock")] >>

(***************************************************************************)
(* Properties of generate_hash (SpecHash).                                 *)
(***************************************************************************)
\* the value data.get(key) of a dict given by its items
ItemGet(items, key) ==
    IF \E i \in 1..Len(items) : items[i].k = key
    THEN items[CHOOSE i \in 1..Len(items) : items[i].k = key].v
    ELSE PyNone

C23_UnknownCategoryIsEmpty ==
    ( /\ call.op = "get_books"
      /\ call.impl = "routes"
      /\ call.category \notin {NoText, ""}
      /\ \A i \in 1..Len(call.stored.categories) :
            call.stored.categories[i] # call.category ) =>
        /\ call.data.total_count = 0
        /\ call.data.books = << >>

(***************************************************************************)
(* Properties of two concurrent runs (SpecConcurrent)                      *)
(***************************************************************************)
\* C30: two crawl runs at once corrupt the progress of a session.  Each run
\* saves its own in-memory copy of the session: when a run completes a
\* page, the stored session becomes that run's copy with the page added
\* (its status, its last_completed_page, its counters plus the page's
\* numbers), whatever another run had stored in between.  Both runs can
\* hold the same resumed Failed session, and the stored page and counters
\* then fall below the work the two runs completed (C30_Witness).
C30_ConcurrentRunsOverwrite ==
    [][\A r \in Runs :
          hist'[r].pages_done = hist[r].pages_done + 1 =>
              LET mine == run[r].m.session
                  stored == sessions'[run[r].m.sid]
              IN  /\ stored.status = mine.status
                  /\ stored.last_completed_page = run[r].page
                  /\ stored.total_books_processed =
                         mine.total_books_processed + run[r].books_processed
                  /\ stored.books_added =
                         mine.books_added + run[r].total_added
                  /\ stored.books_updated =
                         mine.books_updated + run[r].total_updated
                  /\ run'[r].m.session = stored]_vars

\* both runs resumed the same Failed session and are Running on it; run 1
\* completed pages 1 and 2, run 2 then completed page 1: the stored
\* last_completed_page is back at 1 and the stored counter is lower than
\* the books of the pages the two runs completed
C30_Witness ==
    /\ run[1].resumed /\ run[2].resumed
    /\ run[1].m.sid = run[2].m.sid
    /\ run[1].pc \in {"loop", "books"} /\ run[2].pc \in {"loop", "books"}
    /\ sessions[run[1].m.sid].status = "running"
    /\ run[1].m.session.last_completed_page = 2
    /\ sessions[run[1].m.sid].last_completed_page = 1
    /\ hist[1].pages_done = 2 /\ hist[2].pages_done = 1
    /\ sessions[run[1].m.sid].total_books_processed
           < hist[1].run_books + hist[2].run_books

\* C33: a reconcile call writes ChangeLog entries only when it reports
\* updated = 1: a call that returns updated = 0 (nothing to do, an insert,
\* or errors = 1 after a failed lookup or a failed save of the Book) leaves
\* the ChangeLog collection as it was before the call.
C33_ChangeLogOnlyWhenUpdated ==
    [][(ReconcileStep /\ ~call'.raised /\ call'.stats.updated = 0) =>
          changelog' = changelog]_vars

(***************************************************************************)
(* Properties of the store under the reconcilers (SpecStore)               *)
(***************************************************************************)
\* the category name a call looks up: crawler/utils.py normalises a missing,
\* empty or blank name to "Unknown", crawler/main.py takes the value as is
LookupName(impl, raw) ==
    IF impl = "utils"
    THEN get_or_create_category(GetOr(raw, "category", PyStr("Unknown")),
                                NoFault).name
    ELSE PyStrOf(Get(raw, "category"))

\* C31: after any sequence of reconciliations made one after another the
\* store holds at most one Book per title and at most one category per name;
\* a call never changes a category that exists, a call whose category name
\* exists creates no category, and the Record Reconciler of crawler/utils.py
\* stores no empty or blank name (it looks "Unknown" up instead).
C31_OnePerTitleAndName ==
    /\ [](\A i, j \in 1..Len(books) :
             books[i].title = books[j].title => i = j)
    /\ [](\A i, j \in 1..Len(categories) :
             categories[i] = categories[j] => i = j)
    /\ [][ReconcileStep =>
            /\ Len(categories') >= Len(categories)
            /\ SubSeq(categories', 1, Len(categories)) = categories
            /\ CategoryFound(LookupName(call'.impl, call'.raw)) =>
                   categories' = categories
            /\ call'.impl = "utils" =>
                   \A i \in (Len(categories) + 1)..Len(categories') :
                       categories'[i] \notin {"", " "}]_vars

\* two Books of two titles and the one category "Unknown": the last call,
\* of crawler/utils.py, was given a blank category name and added its Book
\* to the category that existed
C31_Witness ==
    /\ call.op = "reconcile"
    /\ call.impl = "utils"
    /\ "category" \in DOMAIN call.raw
    /\ Blank(call.raw.category)
    /\ call.stats.added = 1
    /\ Len(books) = 2
    /\ categories = << "Unknown" >>
    /\ books[2].category = "Unknown"

\* the raw records parse_book_details can return (all thirteen keys, the
\* category a string), the title possibly empty and the category name
\* possibly blank
EquivalenceRaws ==
    { raw \in StoreRaws \cup ReconcileRaws :
        /\ DOMAIN raw = DOMAIN RawRecord("a", "A", "Fiction", PyInt(0), "h")
        /\ raw.category.t = "str" }

\* what a reconciliation leaves and returns, for the comparison of the two
Effect(out) ==
    [returned |-> ~out.raised,
     added |-> out.stats.added, updated |-> out.stats.updated,
     books |-> out.books, categories |-> out.categories,
     changelog |-> out.changelog]

\* C36: when no persistence operation fails, save_or_update_book of
\* crawler/main.py and save_or_update_book of crawler/utils.py are
\* equivalent: in every store state and for every raw record (one with an
\* empty title or a blank category name included) both return, with the
\* same added and updated, and leave the same Books, categories and
\* ChangeLog entries.
C36_ReconcilersEquivalent ==
    \A raw \in EquivalenceRaws :
        Effect(main_save_or_update_book(raw, NoFault))
            = Effect(utils_save_or_update_book(raw, NoFault))

SameNumberOtherText(old_book, new_book) ==
    \E f \in TrackedSet :
        /\ IsNumber(Get(old_book, f)) /\ IsNumber(Get(new_book, f))
        /\ Hundredths(Get(old_book, f)) = Hundredths(Get(new_book, f))
        /\ JsonDumps(Get(old_book, f)) # JsonDumps(Get(new_book, f))

====
